---- MODULE Spec2Model ----
(***************************************************************************)
(* A model of nrbf-rs, a decoder of the .NET Remoting Binary Format.       *)
(*                                                                         *)
(* The byte source is a finite sequence of bytes (0..255).  A decoding     *)
(* session is a record `st` holding the stream, the read position, the     *)
(* fields of DecoderState, and the panic (if any) that ended the decode.   *)
(* Every reader takes a session and gives back [st, v]: the session after  *)
(* the read and the value read.  A panic is sticky: a reader handed a      *)
(* panicked session gives it back unchanged.                               *)
(***************************************************************************)
EXTENDS Integers, Sequences, FiniteSets, TLC

VARIABLES
    dec,      \* the DecoderState of the running parse_nrbf call (with its stream)
    pc,       \* where parse_nrbf is: "header", "end", or how it ended
    root,     \* parse_nrbf's local `root` once resolved
    endv,     \* parse_nrbf's local `end` once read
    out       \* what a function called on its own handed back (the text of
              \* println!("{}", value), the length read_variable_length read)

vars == <<dec, pc, root, endv, out>>

(***************************************************************************)
(* value.rs: enum Value.  64-bit and unsigned 32-bit scalars and floats    *)
(* are kept as their little-endian bytes (from_le_bytes is a bijection).   *)
(***************************************************************************)
Null == [tag |-> "Null"]
Bottom == [tag |-> "Bottom"]
Bool(b) == [tag |-> "Bool", b |-> b]
U8(n) == [tag |-> "U8", n |-> n]
I8(n) == [tag |-> "I8", n |-> n]
I32(n) == [tag |-> "I32", n |-> n]
U32(bs) == [tag |-> "U32", bytes |-> bs]
U64(bs) == [tag |-> "U64", bytes |-> bs]
I64(bs) == [tag |-> "I64", bytes |-> bs]
F32(bs) == [tag |-> "F32", bytes |-> bs]
F64(bs) == [tag |-> "F64", bytes |-> bs]
String(s) == [tag |-> "String", s |-> s]
Array(lens, lbs, elems) == [tag |-> "Array", lens |-> lens, lbs |-> lbs, elems |-> elems]
Object(cls, members) == [tag |-> "Object", cls |-> cls, members |-> members]
Reference(id) == [tag |-> "Reference", id |-> id]

\* Option<i32>
None == [some |-> FALSE]
Some(x) == [some |-> TRUE, v |-> x]

\* HashMap::new / HashMap::insert (an insert under a present key overwrites)
EmptyMap == << >>
MapInsertFirstWins(m, k, v) ==
    IF k \in DOMAIN m THEN m ELSE [x \in DOMAIN m \cup {k} |-> IF x = k THEN v ELSE m[x]]
MapInsert(m, k, v) == [x \in DOMAIN m \cup {k} |-> IF x = k THEN v ELSE m[x]]

(***************************************************************************)
(* The session.  `fault` names the panic that ended it.  Four fields are   *)
(* ghost (the code keeps no such data): `log` is a history of the calls of *)
(* next_value_record, `writes` one of the inserts into `values`, `res` one *)
(* of the References resolved, and `skipped` tells that a primitive member *)
(* was read off the stream while nulls of a run were still pending.        *)
(***************************************************************************)
NewSession(stream) ==
    [stream |-> stream, pos |-> 0, status |-> "ok", fault |-> "",
     root_id |-> None, header_id |-> None,
     libraries |-> EmptyMap, classes |-> EmptyMap, values |-> EmptyMap,
     null_count |-> 0, overflow_checks |-> TRUE,
     log |-> << >>, writes |-> << >>, res |-> << >>, skipped |-> FALSE,
     sought |-> {}, defs |-> << >>]

Ok(st) == st.status = "ok"

Panic(st, why) ==
    IF st.status = "ok" THEN [st EXCEPT !.status = "panic", !.fault = why] ELSE st

\* A quantity the model does not follow (see MaxLoop, read_variable_length).
Exhaust(st) ==
    IF st.status = "ok" THEN [st EXCEPT !.status = "exhausted", !.fault = "bound"] ELSE st

R(st, v) == [st |-> st, v |-> v]

(***************************************************************************)
(* primitives.rs                                                           *)
(***************************************************************************)
\* read_or_panic: n bytes, or the panic "Cannot read from stream"
read_or_panic(st, n) ==
    IF st.status # "ok" THEN R(st, << >>)
    ELSE IF st.pos + n > Len(st.stream) THEN R(Panic(st, "Cannot read from stream"), << >>)
    ELSE R([st EXCEPT !.pos = @ + n], SubSeq(st.stream, st.pos + 1, st.pos + n))

read_bytes(st, n) ==
    LET r == read_or_panic(st, n)
    IN  IF r.st.status # "ok" THEN R(r.st, [i \in 1..n |-> 0]) ELSE r

read_u8(st) ==
    LET r == read_bytes(st, 1) IN R(r.st, r.v[1])

read_i8(st) ==
    LET r == read_bytes(st, 1) IN R(r.st, IF r.v[1] >= 128 THEN r.v[1] - 256 ELSE r.v[1])

read_i16(st) ==
    LET r == read_bytes(st, 2)
        u == r.v[1] + 256 * r.v[2]
    IN  R(r.st, IF u >= 32768 THEN u - 65536 ELSE u)

\* i32::from_le_bytes, two's complement
I32OfBytes(b) ==
    b[1] + 256 * b[2] + 65536 * b[3]
      + 16777216 * (IF b[4] >= 128 THEN b[4] - 256 ELSE b[4])

read_i32(st) ==
    LET r == read_bytes(st, 4) IN R(r.st, I32OfBytes(r.v))

\* read_variable_length: 7 bits a byte, low group first, high bit = "more"
\* a shift by whole bytes
Shl8(x, num_bytes) ==
    x * (CASE num_bytes = 0 -> 1 [] num_bytes = 1 -> 256
           [] num_bytes = 2 -> 65536 [] OTHER -> 16777216)
Shl7(x, num_bytes) ==
    x * (CASE num_bytes = 0 -> 1 [] num_bytes = 1 -> 128
           [] num_bytes = 2 -> 16384 [] num_bytes = 3 -> 2097152
           [] OTHER -> 268435456)

RECURSIVE rvl_loop(_, _, _)
rvl_byte(r, length, num_bytes) ==
    IF ~Ok(r.st) THEN R(r.st, 0)
    ELSE IF num_bytes > 4 \/ (num_bytes = 4 /\ r.v % 128 > 7) THEN R(Exhaust(r.st), 0)
    ELSE IF r.v < 128 THEN R(r.st, length + Shl7(r.v % 128, num_bytes))
    ELSE rvl_loop(r.st, length + Shl7(r.v % 128, num_bytes), num_bytes + 1)

rvl_loop(st, length, num_bytes) == rvl_byte(read_u8(st), length, num_bytes)

read_variable_length(st) == rvl_loop(st, 0, 0)

\* String::from_utf8: the well-formed byte sequences of UTF-8
RECURSIVE Utf8Valid(_)
Utf8Valid(s) ==
    LET n == Len(s)
        Cont(i) == i <= n /\ s[i] >= 128 /\ s[i] <= 191
        In(i, lo, hi) == i <= n /\ s[i] >= lo /\ s[i] <= hi
        b == s[1]
        Rest(k) == Utf8Valid(SubSeq(s, k + 1, n))
    IN  IF n = 0 THEN TRUE
        ELSE IF b < 128 THEN Rest(1)
        ELSE IF b >= 194 /\ b <= 223 THEN Cont(2) /\ Rest(2)
        ELSE IF b = 224 THEN In(2, 160, 191) /\ Cont(3) /\ Rest(3)
        ELSE IF (b >= 225 /\ b <= 236) \/ b = 238 \/ b = 239 THEN Cont(2) /\ Cont(3) /\ Rest(3)
        ELSE IF b = 237 THEN In(2, 128, 159) /\ Cont(3) /\ Rest(3)
        ELSE IF b = 240 THEN In(2, 144, 191) /\ Cont(3) /\ Cont(4) /\ Rest(4)
        ELSE IF b >= 241 /\ b <= 243 THEN Cont(2) /\ Cont(3) /\ Cont(4) /\ Rest(4)
        ELSE IF b = 244 THEN In(2, 128, 143) /\ Cont(3) /\ Cont(4) /\ Rest(4)
        ELSE FALSE

\* read_lps: a length, that many bytes, decoded as UTF-8 (a String is its bytes)
lps_decode(d) ==
    IF ~Ok(d.st) THEN R(d.st, << >>)
    ELSE IF ~Utf8Valid(d.v) THEN R(Panic(d.st, "Failed to decode UTF8 data"), << >>)
    ELSE d

lps_data(l) == lps_decode(read_or_panic(l.st, l.v))

read_lps(st) == lps_data(read_variable_length(st))

(***************************************************************************)
(* lib.rs: the enumerations read with FromPrimitive::from_u8.  "?" stands  *)
(* for from_u8's None.                                                     *)
(***************************************************************************)
RecordTypeOf(b) ==
    CASE b = 0 -> "SerializationHeader" [] b = 1 -> "ClassWithId"
      [] b = 2 -> "SystemClassWithMembers" [] b = 3 -> "ClassWithMembers"
      [] b = 4 -> "SystemClassWithMembersAndTypes" [] b = 5 -> "ClassWithMembersAndTypes"
      [] b = 6 -> "BinaryObjectString" [] b = 7 -> "BinaryArray"
      [] b = 8 -> "MemberPrimitiveTyped" [] b = 9 -> "MemberReference"
      [] b = 10 -> "ObjectNull" [] b = 11 -> "MessageEnd"
      [] b = 12 -> "BinaryLibrary" [] b = 13 -> "ObjectNullMultiple256"
      [] b = 14 -> "ObjectNullMultiple" [] b = 15 -> "ArraySinglePrimitive"
      [] b = 16 -> "ArraySingleObject" [] b = 17 -> "ArraySingleString"
      [] b = 21 -> "MethodCall" [] b = 22 -> "MethodReturn"
      [] OTHER -> "?"

\* `Record` follows PrimitiveArray = 7 without a value of its own: it is 8.
BinaryTypeOf(b) ==
    CASE b = 0 -> "Primitive" [] b = 1 -> "String" [] b = 2 -> "Object"
      [] b = 3 -> "SystemClass" [] b = 4 -> "Class" [] b = 5 -> "ObjectArray"
      [] b = 6 -> "StringArray" [] b = 7 -> "PrimitiveArray" [] b = 8 -> "Record"
      [] OTHER -> "?"

PrimitiveTypeOf(b) ==
    CASE b = 1 -> "Boolean" [] b = 2 -> "Byte" [] b = 3 -> "Char" [] b = 5 -> "Decimal"
      [] b = 6 -> "Double" [] b = 7 -> "Int16" [] b = 8 -> "Int32" [] b = 9 -> "Int64"
      [] b = 10 -> "SByte" [] b = 11 -> "Single" [] b = 12 -> "TimeSpan"
      [] b = 13 -> "DateTime" [] b = 14 -> "UInt16" [] b = 15 -> "UInt32"
      [] b = 16 -> "UInt64" [] b = 17 -> "Null" [] b = 18 -> "String"
      [] OTHER -> "?"

BinaryArrayTypeOf(b) ==
    CASE b = 0 -> "Single" [] b = 1 -> "Jagged" [] b = 2 -> "Rectangular"
      [] b = 3 -> "SingleOffset" [] b = 4 -> "JaggedOffset" [] b = 5 -> "RectangularOffset"
      [] OTHER -> "?"

\* impl<T: FromPrimitive> FromStream for T
FromPrimitive_from_u8(T, b) ==
    CASE T = "RecordType" -> RecordTypeOf(b)
      [] T = "BinaryType" -> BinaryTypeOf(b)
      [] T = "PrimitiveType" -> PrimitiveTypeOf(b)
      [] T = "BinaryArrayType" -> BinaryArrayTypeOf(b)

enum_of(r, T) ==
    IF ~Ok(r.st) THEN R(r.st, "?")
    ELSE IF FromPrimitive_from_u8(T, r.v) = "?"
    THEN R(Panic(r.st, "Unexpected enum value"), "?")
    ELSE R(r.st, FromPrimitive_from_u8(T, r.v))

from_stream(st, T) == enum_of(read_u8(st), T)

\* `as usize` of an i32: a negative one becomes a number near 2^64, which
\* the model does not follow.
AsUsize(r) == IF r.v < 0 THEN R(Exhaust(r.st), 0) ELSE r

\* the value a read gave, wrapped
Val(r, v) == R(r.st, v)
AsBool(r) == Val(r, Bool(r.v # 0))
AsI8(r) == Val(r, I8(r.v))
AsI32(r) == Val(r, I32(r.v))
AsI64(r) == Val(r, I64(r.v))
AsU8(r) == Val(r, U8(r.v))
AsU32(r) == Val(r, U32(r.v))
AsU32From16(r) == Val(r, U32(r.v \o <<0, 0>>))
AsU64(r) == Val(r, U64(r.v))
AsF32(r) == Val(r, F32(r.v))
AsF64(r) == Val(r, F64(r.v))
AsString(r) == Val(r, String(r.v))

\* PrimitiveType::read with a null given for the types it does not read
PrimitiveType_read_null(st, p) ==
    CASE p = "Boolean" -> AsBool(read_u8(st))
      [] p = "SByte" -> AsI8(read_i8(st))
      [] p = "Int16" -> AsI32(read_i16(st))
      [] p = "Int32" -> AsI32(read_i32(st))
      [] p = "Int64" -> AsI64(read_bytes(st, 8))
      [] p = "Byte" -> AsU8(read_u8(st))
      [] p = "UInt16" -> AsU32From16(read_bytes(st, 2))
      [] p = "UInt32" -> AsU32(read_bytes(st, 4))
      [] p = "UInt64" -> AsU64(read_bytes(st, 8))
      [] p = "Single" -> AsF32(read_bytes(st, 4))
      [] p = "Double" -> AsF64(read_bytes(st, 8))
      [] p = "String" -> AsString(read_lps(st))
      [] OTHER -> R(st, Null)

\* PrimitiveType::read
PrimitiveType_read(st, p) ==
    CASE p = "Boolean" -> AsBool(read_u8(st))
      [] p = "SByte" -> AsI8(read_i8(st))
      [] p = "Int16" -> AsI32(read_i16(st))
      [] p = "Int32" -> AsI32(read_i32(st))
      [] p = "Int64" -> AsI64(read_bytes(st, 8))
      [] p = "Byte" -> AsU8(read_u8(st))
      [] p = "UInt16" -> AsU32From16(read_bytes(st, 2))
      [] p = "UInt32" -> AsU32(read_bytes(st, 4))
      [] p = "UInt64" -> AsU64(read_bytes(st, 8))
      [] p = "Single" -> AsF32(read_bytes(st, 4))
      [] p = "Double" -> AsF64(read_bytes(st, 8))
      [] p = "Null" -> R(st, Null)
      [] p = "String" -> AsString(read_lps(st))
      [] OTHER -> R(Panic(st, "Cannot deserialize yet"), Null)

\* A record's fields are read one after another into a tuple: each step
\* takes [st, v], v the fields read so far, and appends one.
Start(st) == R(st, << >>)
Put(r, x) == R(x.st, Append(r.v, x.v))
AndI32(r) == Put(r, read_i32(r.st))
AndU8(r) == Put(r, read_u8(r.st))
AndUsize(r) == Put(r, AsUsize(read_i32(r.st)))
AndLps(r) == Put(r, read_lps(r.st))
AndEnum(r, T) == Put(r, from_stream(r.st, T))

\* (0..count).map(|_| read_lps(stream)).collect()
RECURSIVE read_names(_, _, _)
names_next(r, count, acc) == read_names(r.st, count, Append(acc, r.v))
read_names(st, count, acc) ==
    IF ~Ok(st) \/ Len(acc) >= count THEN R(st, acc)
    ELSE names_next(read_lps(st), count, acc)

\* (0..count).map(|_| read_i32(stream) as usize).collect()
RECURSIVE read_usizes(_, _, _)
usizes_next(r, count, acc) == read_usizes(r.st, count, Append(acc, r.v))
read_usizes(st, count, acc) ==
    IF ~Ok(st) \/ Len(acc) >= count THEN R(st, acc)
    ELSE usizes_next(AsUsize(read_i32(st)), count, acc)

\* ClassInfo::from_stream: <<id, name, member_count, member_names>>
AndNames(r) == Put(r, read_names(r.st, r.v[3], << >>))
ClassInfo_from_stream(st) == AndNames(AndI32(AndLps(AndI32(Start(st)))))
InfoId(info) == info[1]
InfoName(info) == info[2]
InfoFieldNames(info) == info[4]

\* ClassTypeInfo::from_stream
AsClassTypeInfo(r) == Val(r, [name |-> r.v[1], library_id |-> r.v[2]])
ClassTypeInfo_from_stream(st) == AsClassTypeInfo(AndI32(AndLps(Start(st))))

AI_Nothing == [k |-> "Nothing"]
AsPrimitiveInfo(r) == Val(r, [k |-> "PrimitiveType", p |-> r.v])
AsClassNameInfo(r) == Val(r, [k |-> "ClassName", s |-> r.v])
AsClassInfo(r) == Val(r, [k |-> "Class", c |-> r.v])

\* AdditionalInfos::from_stream
AdditionalInfos_from_stream(st, binary_type) ==
    IF binary_type \in {"Primitive", "PrimitiveArray"}
    THEN AsPrimitiveInfo(from_stream(st, "PrimitiveType"))
    ELSE IF binary_type = "SystemClass" THEN AsClassNameInfo(read_lps(st))
    ELSE IF binary_type = "Class" THEN AsClassInfo(ClassTypeInfo_from_stream(st))
    ELSE R(st, AI_Nothing)

ClassField(name, binary_type, additional_infos) ==
    [name |-> name, bt |-> binary_type, ai |-> additional_infos]
Class(name, fields) == [name |-> name, fields |-> fields]

\* field_names.iter().map(|_| BinaryType::from_stream(stream)).collect()
RECURSIVE read_binary_types(_, _, _)
binary_types_next(r, count, acc) == read_binary_types(r.st, count, Append(acc, r.v))
read_binary_types(st, count, acc) ==
    IF ~Ok(st) \/ Len(acc) >= count THEN R(st, acc)
    ELSE binary_types_next(from_stream(st, "BinaryType"), count, acc)

\* binary_types.iter().cloned().map(|t| AdditionalInfos::from_stream(stream, t)).collect()
RECURSIVE read_additional_infos(_, _, _)
additional_infos_next(r, bts, acc) == read_additional_infos(r.st, bts, Append(acc, r.v))
read_additional_infos(st, bts, acc) ==
    IF ~Ok(st) \/ Len(acc) >= Len(bts) THEN R(st, acc)
    ELSE additional_infos_next(AdditionalInfos_from_stream(st, bts[Len(acc) + 1]), bts, acc)

(***************************************************************************)
(* Bounds of the model.                                                    *)
(***************************************************************************)
\* The longest null run, and the longest array of values that take no
\* bytes, the model follows.
MaxLoop == 6

\* The depth of resolve_references' recursion at which the thread's stack
\* is taken to be used up.
MaxDepth == 8

(***************************************************************************)
(* Ghost history.  A "call" entry is written when a record tag has been    *)
(* read, a "ret" entry when next_value_record returns.                     *)
(***************************************************************************)
LogCall(st, start) ==
    IF st.pos = start THEN st
    ELSE [st EXCEPT !.log = Append(@,
            [k |-> "call", byte |-> st.stream[start + 1], start |-> start,
             classes |-> DOMAIN st.classes, values |-> DOMAIN st.values,
             writes |-> Len(st.writes), defs |-> Len(st.defs)])]

LogRet(st, rt, start, v) ==
    [st EXCEPT !.log = Append(@,
        [k |-> "ret", tag |-> rt, start |-> start, end |-> st.pos, v |-> v,
         nulls |-> st.null_count, writes |-> Len(st.writes), defs |-> Len(st.defs)])]

\* self.values.insert(id, value)
values_insert_first_wins(st, id, v) ==
    IF st.status # "ok" THEN st
    ELSE [st EXCEPT !.values = MapInsertFirstWins(@, id, v),
                    !.writes = Append(@, [id |-> id, v |-> v])]
values_insert(st, id, v) ==
    IF st.status # "ok" THEN st
    ELSE [st EXCEPT !.values = MapInsert(@, id, v),
                    !.writes = Append(@, [id |-> id, v |-> v])]

\* self.classes.insert(id, class)
classes_insert(st, id, class) ==
    IF st.status # "ok" THEN st
    ELSE [st EXCEPT !.classes = MapInsert(@, id, class),
                    !.defs = Append(@, [id |-> id, class |-> class])]

RECURSIVE next_value_record(_)
RECURSIVE parse_object(_, _)

\* ghost: a primitive member is read while nulls are pending
NoteSkipped(st) == IF st.null_count > 0 THEN [st EXCEPT !.skipped = TRUE] ELSE st

\* parse_class_member with the next record read for a field of any other type
parse_class_member_any(st, class_field) ==
    IF ~Ok(st) THEN R(st, Bottom)
    ELSE IF class_field.bt = "Primitive" /\ class_field.ai.k = "PrimitiveType"
    THEN PrimitiveType_read(NoteSkipped(st), class_field.ai.p)
    ELSE next_value_record(st)

\* DecoderState::parse_class_member, without the field name it hands back
parse_class_member(st, class_field) ==
    IF ~Ok(st) THEN R(st, Bottom)
    ELSE IF class_field.bt = "Record" /\ class_field.ai.k = "Nothing"
    THEN next_value_record(st)
    ELSE IF class_field.bt = "Primitive" /\ class_field.ai.k = "PrimitiveType"
    THEN PrimitiveType_read(NoteSkipped(st), class_field.ai.p)
    ELSE IF \/ class_field.bt = "String" /\ class_field.ai.k = "Nothing"
            \/ class_field.bt = "SystemClass" /\ class_field.ai.k = "ClassName"
            \/ class_field.bt = "Class" /\ class_field.ai.k = "Class"
            \/ class_field.bt = "PrimitiveArray" /\ class_field.ai.k = "PrimitiveType"
    THEN next_value_record(st)
    ELSE R(Panic(st, "No parser implemented"), Bottom)

\* fields.iter().map(|f| self.parse_class_member(f)).collect::<HashMap<_, _>>()
RECURSIVE parse_members(_, _, _, _)
\* the collect with the first value of a name kept
members_next_first(r, fields, i, members) ==
    parse_members(r.st, fields, i + 1, MapInsertFirstWins(members, fields[i].name, r.v))
members_next(r, fields, i, members) ==
    parse_members(r.st, fields, i + 1, MapInsert(members, fields[i].name, r.v))
parse_members(st, fields, i, members) ==
    IF ~Ok(st) \/ i > Len(fields) THEN R(st, members)
    ELSE members_next(parse_class_member(st, fields[i]), fields, i, members)

\* DecoderState::parse_object
AsObject(r, class_name) == Val(r, Object(class_name, r.v))
\* parse_object with an unknown class read as a class of no fields
parse_object_lenient(st, class_id) ==
    IF ~Ok(st) THEN R(st, Bottom)
    ELSE IF class_id \notin DOMAIN st.classes
    THEN R(st, Object(<< >>, EmptyMap))
    ELSE AsObject(parse_members(st, st.classes[class_id].fields, 1, EmptyMap),
                  st.classes[class_id].name)

parse_object(st, class_id) ==
    IF ~Ok(st) THEN R(st, Bottom)
    ELSE IF class_id \notin DOMAIN st.classes
    THEN R(Panic(st, "Class is not yet defined"), Bottom)
    ELSE AsObject(parse_members(st, st.classes[class_id].fields, 1, EmptyMap),
                  st.classes[class_id].name)

\* (0..size).map(|_| self.next_value_record()).collect()
RECURSIVE read_elements(_, _, _)
elements_next(r, size, acc) == read_elements(r.st, size, Append(acc, r.v))
read_elements(st, size, acc) ==
    IF ~Ok(st) \/ Len(acc) >= size THEN R(st, acc)
    ELSE elements_next(next_value_record(st), size, acc)

\* (0..length).map(|_| primitive.read(self.stream)).collect()
RECURSIVE read_primitives(_, _, _, _)
primitives_next(r, length, p, acc) == read_primitives(r.st, length, p, Append(acc, r.v))
read_primitives(st, length, p, acc) ==
    IF ~Ok(st) \/ Len(acc) >= length THEN R(st, acc)
    ELSE primitives_next(PrimitiveType_read(st, p), length, p, acc)

\* RecordType::SerializationHeader
hdr_root_id(r) == IF Ok(r.st) THEN [r.st EXCEPT !.root_id = Some(r.v)] ELSE r.st
hdr_header_id(r) == IF Ok(r.st) THEN [r.st EXCEPT !.header_id = Some(r.v)] ELSE r.st
hdr_major_version(r) ==
    IF Ok(r.st) /\ r.v # 1 THEN Panic(r.st, "Major version must be 1") ELSE r.st
\* the minor version read and not compared
hdr_minor_version_any(r) == r.st
hdr_minor_version(r) ==
    IF Ok(r.st) /\ r.v # 0 THEN Panic(r.st, "Minor version must be 0") ELSE r.st
rec_SerializationHeader(st) ==
    R(hdr_minor_version(read_i32(
        hdr_major_version(read_i32(
          hdr_header_id(read_i32(
            hdr_root_id(read_i32(st)))))))),
      Bottom)

\* RecordType::BinaryLibrary: <<id, name>>
lib_insert(r) ==
    IF Ok(r.st) THEN [r.st EXCEPT !.libraries = MapInsert(@, r.v[1], r.v[2])] ELSE r.st
rec_BinaryLibrary(st) == R(lib_insert(AndLps(AndI32(Start(st)))), Bottom)

\* the end of a value-defining record with nothing put in the table
store_nothing(r, id) == R(r.st, Reference(id))

\* the end of every value-defining record:
\* self.values.insert(id, value); Value::Reference(id)
store(r, id) == R(values_insert(r.st, id, r.v), Reference(id))

\* RecordType::ClassWithId: <<id, class_id>>
cwi_object(r) == store(parse_object(r.st, r.v[2]), r.v[1])
rec_ClassWithId(st) == cwi_object(AndI32(AndI32(Start(st))))

\* The tail the three class-defining records share: register the class,
\* decode its first instance, store it.
\* define_class with the class registered once its first instance is decoded
register_late(r, id, class) == store(R(classes_insert(r.st, id, class), r.v), id)
define_class_late(st, id, class) ==
    register_late(AsObject(parse_members(st, class.fields, 1, EmptyMap), class.name),
                  id, class)
define_class(st, id, class) == store(parse_object(classes_insert(st, id, class), id), id)

RecordFields(field_names) ==
    [i \in 1..Len(field_names) |-> ClassField(field_names[i], "Record", AI_Nothing)]

TypedFields(field_names, binary_types, additional_infos) ==
    [i \in 1..Len(field_names) |->
        ClassField(field_names[i], binary_types[i], additional_infos[i])]

\* RecordType::ClassWithMembers: <<info, library_id>>
cwm_define(r) ==
    IF ~Ok(r.st) THEN R(r.st, Bottom)
    ELSE define_class(r.st, InfoId(r.v[1]),
                      Class(InfoName(r.v[1]), RecordFields(InfoFieldNames(r.v[1]))))
AndClassInfo(r) == Put(r, ClassInfo_from_stream(r.st))
rec_ClassWithMembers(st) == cwm_define(AndI32(AndClassInfo(Start(st))))

\* RecordType::ClassWithMembersAndTypes and SystemClassWithMembersAndTypes:
\* <<info, binary_types, additional_infos>> and, in the first, library_id
AndBinaryTypes(r) ==
    Put(r, read_binary_types(r.st, Len(InfoFieldNames(r.v[1])), << >>))
AndAdditionalInfos(r) == Put(r, read_additional_infos(r.st, r.v[2], << >>))
typed_define(r) ==
    IF ~Ok(r.st) THEN R(r.st, Bottom)
    ELSE define_class(r.st, InfoId(r.v[1]),
            Class(InfoName(r.v[1]), TypedFields(InfoFieldNames(r.v[1]), r.v[2], r.v[3])))
rec_ClassWithMembersAndTypes(st) ==
    typed_define(AndI32(AndAdditionalInfos(AndBinaryTypes(AndClassInfo(Start(st))))))
rec_SystemClassWithMembersAndTypes(st) ==
    typed_define(AndAdditionalInfos(AndBinaryTypes(AndClassInfo(Start(st)))))

\* A usize (64 bits) as its eight bytes, low byte first, and x * y of two of
\* them as the sixteen bytes of the full product: the multiplication keeps
\* the low eight, and overflows if one of the others is not zero.
Usize(x) ==
    << x % 256, (x \div 256) % 256, (x \div 65536) % 256, x \div 16777216, 0, 0, 0, 0 >>
ByteAt(a, i) == IF i \in 1..Len(a) THEN a[i] ELSE 0
Column(a, b, k) ==
    ByteAt(a, k) * b[1] + ByteAt(a, k - 1) * b[2] + ByteAt(a, k - 2) * b[3]
      + ByteAt(a, k - 3) * b[4] + ByteAt(a, k - 4) * b[5] + ByteAt(a, k - 5) * b[6]
      + ByteAt(a, k - 6) * b[7] + ByteAt(a, k - 7) * b[8]
RECURSIVE product_digits(_, _, _, _)
digits_next(a, b, k, sum) == <<sum % 256>> \o product_digits(a, b, k + 1, sum \div 256)
product_digits(a, b, k, carry) ==
    IF k > 16 THEN << >> ELSE digits_next(a, b, k, Column(a, b, k) + carry)
Overflows(p) == \E i \in 9..16 : p[i] # 0

\* lengths.iter().fold(1, |x, y| x * y): the product in usize arithmetic
\* and whether one of the multiplications overflowed
One == [x |-> Usize(1), overflow |-> FALSE]
RECURSIVE fold_product(_, _, _)
fold_next(lengths, i, p, overflow) ==
    fold_product(lengths, i + 1,
                 [x |-> SubSeq(p, 1, 8), overflow |-> overflow \/ Overflows(p)])
fold_product(lengths, i, acc) ==
    IF i > Len(lengths) THEN acc
    ELSE fold_next(lengths, i, product_digits(acc.x, Usize(lengths[i]), 1, 0),
                   acc.overflow)

\* RecordType::BinaryArray:
\* <<object_id, array_type, rank, lengths, lower_bounds, item_type, values>>
AndLengths(r) == Put(r, read_usizes(r.st, r.v[3], << >>))
AndLowerBounds(r) ==
    IF ~Ok(r.st) THEN Put(r, R(r.st, << >>))
    ELSE IF r.v[2] \in {"SingleOffset", "JaggedOffset", "RectangularOffset"}
    THEN Put(r, read_usizes(r.st, r.v[3], << >>))
    ELSE IF r.v[3] < 0 THEN Put(r, R(Panic(r.st, "rank.try_into().unwrap()"), << >>))
    ELSE Put(r, R(r.st, [i \in 1..r.v[3] |-> 0]))
ItemInfo(r, t) == R(AdditionalInfos_from_stream(t.st, t.v).st, Append(r.v, t.v))
AndItemType(r) == ItemInfo(r, from_stream(r.st, "BinaryType"))
\* An overflowing multiplication panics in a build with overflow checks (the
\* dev profile) and wraps in one without (the release profile).  A size of
\* 65536 or more is more elements than the stream and a null run can give.
Checked(st, product) ==
    IF Ok(st) /\ product.overflow /\ st.overflow_checks
    THEN Panic(st, "attempt to multiply with overflow") ELSE st
ArraySize(st, product) ==
    IF \A i \in 3..8 : product.x[i] = 0 THEN product.x[1] + 256 * product.x[2]
    ELSE Len(st.stream) + MaxLoop + 1
ElementsOf(r, product) ==
    Put(r, read_elements(Checked(r.st, product), ArraySize(r.st, product), << >>))
AndElements(r) == ElementsOf(r, fold_product(r.v[4], 1, One))
AsArray(r) == Val(r, Array(r.v[4], r.v[5], r.v[7]))
ba_store(r) == store(AsArray(r), r.v[1])
rec_BinaryArray(st) ==
    ba_store(AndElements(AndItemType(AndLowerBounds(AndLengths(
        AndI32(AndEnum(AndI32(Start(st)), "BinaryArrayType")))))))

\* RecordType::ArraySinglePrimitive: <<object_id, length, primitive, values>>
NullsKnown(r) ==
    IF Ok(r.st) /\ r.v[3] = "Null" /\ r.v[2] > MaxLoop THEN Exhaust(r.st) ELSE r.st
AndPrimitives(r) == Put(r, read_primitives(NullsKnown(r), r.v[2], r.v[3], << >>))
AsPrimitiveArray(r) == Val(r, Array(<<r.v[2]>>, <<0>>, r.v[4]))
asp_store(r) == store(AsPrimitiveArray(r), r.v[1])
rec_ArraySinglePrimitive(st) ==
    asp_store(AndPrimitives(AndEnum(AndUsize(AndI32(Start(st))), "PrimitiveType")))

\* RecordType::BinaryObjectString: <<id, value>>
AsStringOf(r) == Val(r, String(r.v[2]))
bos_store(r) == store(AsStringOf(r), r.v[1])
rec_BinaryObjectString(st) == bos_store(AndLps(AndI32(Start(st))))

\* a null run that hands out a null of its own before the nulls it counts
null_run_one_more(st, count) ==
    IF st.null_count # 0 THEN R(Panic(st, "assert_eq!(self.null_count, 0)"), Bottom)
    ELSE IF ~Ok(count.st) THEN R(count.st, Bottom)
    ELSE IF count.v > MaxLoop THEN R(Exhaust(count.st), Bottom)
    ELSE R([count.st EXCEPT !.null_count = count.v], Null)
\* assert_eq!(self.null_count, 0); self.null_count = count; self.next_value_record()
null_run(st, count) ==
    IF st.null_count # 0 THEN R(Panic(st, "assert_eq!(self.null_count, 0)"), Bottom)
    ELSE IF ~Ok(count.st) THEN R(count.st, Bottom)
    ELSE IF count.v > MaxLoop THEN R(Exhaust(count.st), Bottom)
    ELSE next_value_record([count.st EXCEPT !.null_count = count.v])

\* RecordType::ObjectNullMultiple256
rec_ObjectNullMultiple256(st) == null_run(st, read_u8(st))

\* RecordType::ObjectNullMultiple
rec_ObjectNullMultiple(st) == null_run(st, AsUsize(read_i32(st)))

\* RecordType::MemberReference
AsReference(r) == Val(r, Reference(r.v))
rec_MemberReference(st) == AsReference(read_i32(st))

\* match RecordType::from_stream(self.stream) { ... }
\* dispatch with a record type that has no arm of its own taken as a null
dispatch_lenient(st, record_type) ==
    CASE record_type = "SerializationHeader" -> rec_SerializationHeader(st)
      [] record_type = "BinaryLibrary" -> rec_BinaryLibrary(st)
      [] record_type = "MessageEnd" -> R(st, Bottom)
      [] record_type = "ClassWithId" -> rec_ClassWithId(st)
      [] record_type = "ClassWithMembers" -> rec_ClassWithMembers(st)
      [] record_type = "ClassWithMembersAndTypes" -> rec_ClassWithMembersAndTypes(st)
      [] record_type = "SystemClassWithMembersAndTypes" ->
            rec_SystemClassWithMembersAndTypes(st)
      [] record_type = "BinaryArray" -> rec_BinaryArray(st)
      [] record_type = "ArraySinglePrimitive" -> rec_ArraySinglePrimitive(st)
      [] record_type = "BinaryObjectString" -> rec_BinaryObjectString(st)
      [] record_type = "ObjectNull" -> R(st, Null)
      [] record_type = "ObjectNullMultiple256" -> rec_ObjectNullMultiple256(st)
      [] record_type = "ObjectNullMultiple" -> rec_ObjectNullMultiple(st)
      [] record_type = "MemberReference" -> rec_MemberReference(st)
      [] OTHER -> R(st, Null)

dispatch(st, record_type) ==
    CASE record_type = "SerializationHeader" -> rec_SerializationHeader(st)
      [] record_type = "BinaryLibrary" -> rec_BinaryLibrary(st)
      [] record_type = "MessageEnd" -> R(st, Bottom)
      [] record_type = "ClassWithId" -> rec_ClassWithId(st)
      [] record_type = "ClassWithMembers" -> rec_ClassWithMembers(st)
      [] record_type = "ClassWithMembersAndTypes" -> rec_ClassWithMembersAndTypes(st)
      [] record_type = "SystemClassWithMembersAndTypes" ->
            rec_SystemClassWithMembersAndTypes(st)
      [] record_type = "BinaryArray" -> rec_BinaryArray(st)
      [] record_type = "ArraySinglePrimitive" -> rec_ArraySinglePrimitive(st)
      [] record_type = "BinaryObjectString" -> rec_BinaryObjectString(st)
      [] record_type = "ObjectNull" -> R(st, Null)
      [] record_type = "ObjectNullMultiple256" -> rec_ObjectNullMultiple256(st)
      [] record_type = "ObjectNullMultiple" -> rec_ObjectNullMultiple(st)
      [] record_type = "MemberReference" -> rec_MemberReference(st)
      [] OTHER -> R(Panic(st, "Unhandled record type"), Bottom)

\* DecoderState::next_value_record
returned(r, record_type, start) ==
    IF Ok(r.st) THEN R(LogRet(r.st, record_type, start, r.v), r.v) ELSE R(r.st, Bottom)
dispatched(t, start) == returned(dispatch(LogCall(t.st, start), t.v), t.v, start)
\* next_value_record with a pending null that takes up a byte of the stream
next_value_record_skip(st) ==
    IF ~Ok(st) THEN R(st, Bottom)
    ELSE IF st.null_count > 0
    THEN R(LogRet([st EXCEPT !.null_count = @ - 1, !.pos = @ + 1], "Pending", st.pos, Null),
           Null)
    ELSE dispatched(from_stream(st, "RecordType"), st.pos)
next_value_record(st) ==
    IF ~Ok(st) THEN R(st, Bottom)
    ELSE IF st.null_count > 0
    THEN R(LogRet([st EXCEPT !.null_count = @ - 1], "Pending", st.pos, Null), Null)
    ELSE dispatched(from_stream(st, "RecordType"), st.pos)

\* The stack of the thread is used up: the process is killed.
Overflow(st) ==
    IF Ok(st) THEN [st EXCEPT !.status = "overflow", !.fault = "stack overflow"] ELSE st

(***************************************************************************)
(* DecoderState::resolve_references.  A HashMap is iterated in an order    *)
(* that its hasher's random keys decide, so the members of an Object are   *)
(* resolved in any order: the operator gives the set of the results the    *)
(* call can have.  `depth` counts the nested calls.                        *)
(***************************************************************************)
RECURSIVE resolve_references(_, _, _)

\* members.into_iter().map(|(k, v)| (k, self.resolve_references(v))).collect()
RECURSIVE resolve_members(_, _, _, _, _)

\* resolve_members with the resolved values handed to the members in the
\* order they come out, whatever member each was resolved from
resolve_members_by_position(st, members, todo, acc, depth) ==
    IF ~Ok(st) \/ todo = {} THEN {R(st, acc)}
    ELSE UNION { UNION { resolve_members(r.st, members, todo \ {k},
                            MapInsert(acc, CHOOSE x \in DOMAIN members \ DOMAIN acc : TRUE, r.v),
                            depth)
                         : r \in resolve_references(st, members[k], depth + 1) }
                 : k \in todo }

resolve_members(st, members, todo, acc, depth) ==
    IF ~Ok(st) \/ todo = {} THEN {R(st, acc)}
    ELSE UNION { UNION { resolve_members(r.st, members, todo \ {k},
                                         MapInsert(acc, k, r.v), depth)
                         : r \in resolve_references(st, members[k], depth + 1) }
                 : k \in todo }

\* ghost: Reference(id) resolved to `r.v`, after `writes` inserts
LogRes(r, id) ==
    IF Ok(r.st)
    THEN R([r.st EXCEPT !.res = Append(@, [id |-> id, v |-> r.v,
                                           writes |-> Len(r.st.writes)])], r.v)
    ELSE r

\* ghost: the ids the resolver called next_value_record for
Seek(st, id) == [st EXCEPT !.sought = @ \cup {id}]

\* resolve_references with the looked-up value handed back as stored
resolve_references_shallow(st, v, depth) ==
    IF ~Ok(st) THEN {R(st, Bottom)}
    ELSE IF v.tag = "Reference"
    THEN IF v.id \in DOMAIN st.values
         THEN {LogRes(R(st, st.values[v.id]), v.id)}
         ELSE resolve_references(next_value_record(st).st, v, depth)
    ELSE {R(st, v)}

\* values.into_iter().map(|v| self.resolve_references(v)).collect()
RECURSIVE resolve_elements(_, _, _, _)

\* resolve_elements with the elements after the first looked up and not
\* resolved further
resolve_elements_first(st, values, acc, depth) ==
    IF ~Ok(st) \/ Len(acc) >= Len(values) THEN {R(st, acc)}
    ELSE UNION { resolve_elements(r.st, values, Append(acc, r.v), depth)
                 : r \in IF acc = << >>
                         THEN resolve_references(st, values[1], depth + 1)
                         ELSE resolve_references_shallow(st, values[Len(acc) + 1],
                                                         depth + 1) }

resolve_elements(st, values, acc, depth) ==
    IF ~Ok(st) \/ Len(acc) >= Len(values) THEN {R(st, acc)}
    ELSE UNION { resolve_elements(r.st, values, Append(acc, r.v), depth)
                 : r \in resolve_references(st, values[Len(acc) + 1], depth + 1) }

\* resolve_references that calls next_value_record once for a Reference not in
\* the table and then hands the Reference back
resolve_references_once(st, v, depth) ==
    IF ~Ok(st) THEN {R(st, Bottom)}
    ELSE IF depth > MaxDepth THEN {R(Overflow(st), Bottom)}
    ELSE IF v.tag = "Object"
    THEN { R(r.st, Object(v.cls, r.v))
           : r \in resolve_members(st, v.members, DOMAIN v.members, EmptyMap, depth) }
    ELSE IF v.tag = "Array"
    THEN { R(r.st, Array(v.lens, v.lbs, r.v))
           : r \in resolve_elements(st, v.elems, << >>, depth) }
    ELSE IF v.tag = "Reference"
    THEN IF v.id \in DOMAIN st.values
         THEN { LogRes(r, v.id)
                : r \in resolve_references(st, st.values[v.id], depth + 1) }
         ELSE IF v.id \in st.sought THEN {R(st, v)}
         ELSE resolve_references(next_value_record(Seek(st, v.id)).st, v, depth)
    ELSE {R(st, v)}

\* resolve_references with a Reference not yet in the table resolved to the
\* value of the next record of the stream
resolve_references_next(st, v, depth) ==
    IF ~Ok(st) THEN {R(st, Bottom)}
    ELSE IF depth > MaxDepth THEN {R(Overflow(st), Bottom)}
    ELSE IF v.tag = "Object"
    THEN { R(r.st, Object(v.cls, r.v))
           : r \in resolve_members(st, v.members, DOMAIN v.members, EmptyMap, depth) }
    ELSE IF v.tag = "Array"
    THEN { R(r.st, Array(v.lens, v.lbs, r.v))
           : r \in resolve_elements(st, v.elems, << >>, depth) }
    ELSE IF v.tag = "Reference"
    THEN IF v.id \in DOMAIN st.values
         THEN { LogRes(r, v.id)
                : r \in resolve_references(st, st.values[v.id], depth + 1) }
         ELSE { LogRes(r, v.id)
                : r \in resolve_references(next_value_record(st).st,
                                           next_value_record(st).v, depth + 1) }
    ELSE {R(st, v)}

resolve_references(st, v, depth) ==
    IF ~Ok(st) THEN {R(st, Bottom)}
    ELSE IF depth > MaxDepth THEN {R(Overflow(st), Bottom)}
    ELSE IF v.tag = "Object"
    THEN { R(r.st, Object(v.cls, r.v))
           : r \in resolve_members(st, v.members, DOMAIN v.members, EmptyMap, depth) }
    ELSE IF v.tag = "Array"
    THEN { R(r.st, Array(v.lens, v.lbs, r.v))
           : r \in resolve_elements(st, v.elems, << >>, depth) }
    ELSE IF v.tag = "Reference"
    THEN IF v.id \in DOMAIN st.values
         THEN { LogRes(r, v.id)
                : r \in resolve_references(st, st.values[v.id], depth + 1) }
         ELSE resolve_references(next_value_record(Seek(st, v.id)).st, v, depth)
    ELSE {R(st, v)}

(***************************************************************************)
(* Display of a Value (value.rs).  The text is a sequence of pieces, one   *)
(* per write!; a number is kept as the value it is the text of.            *)
(***************************************************************************)
Piece(w) == [w |-> w]
Pad(indent) == [w |-> "pad", n |-> indent]
Lit(v, suffix) == [w |-> "lit", v |-> v, suffix |-> suffix]
Member(name, indent) == [w |-> "member", name |-> name, indent |-> indent]

\* for v in vs { pad; fmt_indent(v, f, indent + 2); "," }
RECURSIVE fmt_indent(_, _)
RECURSIVE fmt_elements(_, _, _)
fmt_elements(vs, i, indent) ==
    IF i > Len(vs) THEN {<< >>}
    ELSE { <<Pad(indent + 2)>> \o e \o <<Piece(",")>> \o rest
           : e \in fmt_indent(vs[i], indent + 2),
             rest \in fmt_elements(vs, i + 1, indent) }

\* for (member, v) in members { pad; "member: "; fmt_indent(v, ..); "," }
\* members is a HashMap: it hands its entries out in an order of its own
RECURSIVE fmt_members(_, _, _)
fmt_members(members, todo, indent) ==
    IF todo = {} THEN {<< >>}
    ELSE UNION { { <<Pad(indent + 2), Member(k, indent + 2)>>
                     \o e \o <<Piece(",")>> \o rest
                   : e \in fmt_indent(members[k], indent + 2),
                     rest \in fmt_members(members, todo \ {k}, indent) }
                 : k \in todo }

fmt_indent(v, indent) ==
    CASE v.tag = "Null" -> {<<Piece("Null")>>}
      [] v.tag = "Bool" -> {<<Lit(v, "")>>}
      [] v.tag = "U8" -> {<<Lit(v, "u8")>>}
      [] v.tag = "U32" -> {<<Lit(v, "u32")>>}
      [] v.tag = "U64" -> {<<Lit(v, "u64")>>}
      [] v.tag = "I8" -> {<<Lit(v, "i8")>>}
      [] v.tag = "I32" -> {<<Lit(v, "i32")>>}
      [] v.tag = "I64" -> {<<Lit(v, "i64")>>}
      [] v.tag = "F32" -> {<<Lit(v, "uf32")>>}
      [] v.tag = "F64" -> {<<Lit(v, "f64")>>}
      [] v.tag = "String" -> {<<Lit(v, "")>>}
      [] v.tag = "Array" ->
            { <<Piece("[")>> \o es \o <<Pad(indent), Piece("]")>>
              : es \in fmt_elements(v.elems, 1, indent) }
      [] v.tag = "Object" ->
            { <<[w |-> "open", cls |-> v.cls]>> \o ms \o <<Pad(indent), Piece("}")>>
              : ms \in fmt_members(v.members, DOMAIN v.members, indent) }
      [] v.tag = "Reference" -> {<<[w |-> "#", id |-> v.id]>>}
      [] v.tag = "Bottom" -> {<<Piece("ERROR")>>}

(***************************************************************************)
(* parse_nrbf, step by step.                                               *)
(***************************************************************************)
Unset == [tag |-> "Unset"]

\* how the call ends in a session that is no longer running
EndOf(st) ==
    CASE st.status = "panic" -> "aborted"
      [] st.status = "overflow" -> "overflow"
      [] OTHER -> "exhausted"

\* the end check with any value let through
assert_end_any(end) == end

\* let end = decoder.next_value_record(); assert_eq!(end, Value::Bottom);
assert_end(end) ==
    IF Ok(end.st) /\ end.v # Bottom
    THEN R(Panic(end.st, "assert_eq!(end, Value::Bottom)"), end.v)
    ELSE end
check_end(st) == assert_end(next_value_record(st))

(***************************************************************************)
(* parse_nrbf as a whole: the set of the outcomes the call can have on a   *)
(* stream (one per order in which the resolver may walk the HashMaps).     *)
(* An outcome is [kind, value, st]: how the call ended, the value it       *)
(* returned (if it did) and the session it left.                           *)
(***************************************************************************)
Outcome(st, kind, value) == [kind |-> kind, value |-> value, st |-> st]

\* while decoder.root_id.is_none() { decoder.next_value_record(); }
RECURSIVE header_loop(_)
header_loop(st) ==
    IF ~Ok(st) \/ st.root_id # None THEN st ELSE header_loop(next_value_record(st).st)

ended(end, resolved) ==
    IF Ok(end.st) THEN Outcome(end.st, "returned", resolved)
    ELSE Outcome(end.st, EndOf(end.st), Unset)

finish(r) ==
    IF Ok(r.st) THEN ended(check_end(r.st), r.v) ELSE Outcome(r.st, EndOf(r.st), Unset)

resolve_root(st) ==
    IF ~Ok(st) THEN {Outcome(st, EndOf(st), Unset)}
    ELSE {finish(r) : r \in resolve_references(st, Reference(st.root_id.v), 0)}

parse_nrbf(stream) == resolve_root(header_loop(NewSession(stream)))

(***************************************************************************)
(* The byte streams the decoder is run on: records written the way the     *)
(* format lays them out, put one after another.  (The repository has no    *)
(* encoder; these definitions only build inputs.)                          *)
(***************************************************************************)
EncI32(n) == <<n % 256, (n \div 256) % 256, (n \div 65536) % 256, (n \div 16777216) % 256>>
EncLps(str) == <<Len(str)>> \o str

RECURSIVE Concat(_)
Concat(seqs) == IF seqs = << >> THEN << >> ELSE Head(seqs) \o Concat(Tail(seqs))

EncNames(names) == Concat([i \in 1..Len(names) |-> EncLps(names[i])])

RecHeader(root_id, major, minor) ==
    <<0>> \o EncI32(root_id) \o EncI32(0) \o EncI32(major) \o EncI32(minor)
RecClassWithId(id, class_id) == <<1>> \o EncI32(id) \o EncI32(class_id)
RecClassWithMembers(id, name, names) ==
    <<3>> \o EncI32(id) \o EncLps(name) \o EncI32(Len(names)) \o EncNames(names) \o EncI32(9)
\* `types` holds, per field, the BinaryType byte and the bytes of its
\* additional info
RecClassWithMembersAndTypes(id, name, names, types) ==
    <<5>> \o EncI32(id) \o EncLps(name) \o EncI32(Len(names)) \o EncNames(names)
      \o [i \in 1..Len(types) |-> types[i][1]]
      \o Concat([i \in 1..Len(types) |-> types[i][2]]) \o EncI32(9)
RecSystemClassWithMembersAndTypes(id, name, names, types) ==
    <<4>> \o EncI32(id) \o EncLps(name) \o EncI32(Len(names)) \o EncNames(names)
      \o [i \in 1..Len(types) |-> types[i][1]]
      \o Concat([i \in 1..Len(types) |-> types[i][2]])
RecString(id, str) == <<6>> \o EncI32(id) \o EncLps(str)
RecBinaryArray(id, array_type, lengths, bounds, item) ==
    <<7>> \o EncI32(id) \o <<array_type>> \o EncI32(Len(lengths))
      \o Concat([i \in 1..Len(lengths) |-> EncI32(lengths[i])])
      \o Concat([i \in 1..Len(bounds) |-> EncI32(bounds[i])])
      \o <<item[1]>> \o item[2]
RecMemberReference(id) == <<9>> \o EncI32(id)
RecObjectNull == <<10>>
RecMessageEnd == <<11>>
RecBinaryLibrary(id, name) == <<12>> \o EncI32(id) \o EncLps(name)
RecObjectNullMultiple256(count) == <<13, count>>
RecObjectNullMultiple(count) == <<14>> \o EncI32(count)
RecArraySinglePrimitive(id, length, primitive, data) ==
    <<15>> \o EncI32(id) \o EncI32(length) \o <<primitive>> \o data

\* field types as written in a class record
TRecord == <<8, << >> >>
TString == <<1, << >> >>
TInt32 == <<0, <<8>> >>
TObject == <<2, << >> >>

\* names: "a", "b", "c", "P", "x", "z"
Na == <<97>>
Nb == <<98>>
Nc == <<99>>
NP == <<80>>
Sx == <<120>>
Sz == <<122>>

\* all sequences over `recs` of n records, and of at most n, as byte streams
RECURSIVE SeqsOf(_, _)
SeqsOf(recs, n) ==
    IF n = 0 THEN {<< >>} ELSE {s \o r : s \in SeqsOf(recs, n - 1), r \in recs}

SeqsUpTo(recs, n) == UNION { SeqsOf(recs, k) : k \in 0..n }

\* Flat streams: every sequence of at most MaxFlat of these records, as it
\* is and after a header of version 1.0.
MaxFlat == 3

FlatRecords ==
    { RecHeader(1, 1, 0), RecHeader(1, 2, 0), RecHeader(1, 1, 1),
      RecString(1, Sx), RecString(1, Sz), RecString(2, Sx),
      RecClassWithMembers(1, NP, <<Na>>), RecClassWithId(1, 2),
      RecMemberReference(2), RecObjectNull,
      RecBinaryLibrary(9, NP), RecMessageEnd }

FlatStreams ==
    { h \o s : h \in {<< >>, RecHeader(1, 1, 0)}, s \in SeqsUpTo(FlatRecords, MaxFlat) }

\* Graph streams: a header, a root object or array of two members, the two
\* references read as its members, at most MaxTail more records, and the
\* end record.
MaxTail == 3

Header == RecHeader(1, 1, 0)

GraphRoots ==
    { RecClassWithMembers(1, NP, <<Na, Nb>>), RecBinaryArray(1, 0, <<2>>, << >>, TRecord) }

GraphMembers ==
    { RecMemberReference(1), RecMemberReference(2), RecMemberReference(3) }

GraphTail ==
    { RecString(2, Sx), RecString(2, Sz), RecString(3, Sx),
      RecClassWithMembers(3, NP, <<Nc>>), RecClassWithId(2, 1), RecMemberReference(2) }

Endings == { << >>, RecMessageEnd }

GraphStreams ==
    { Header \o c \o m1 \o m2 \o t \o e :
        c \in GraphRoots, m1 \in GraphMembers, m2 \in GraphMembers,
        t \in SeqsUpTo(GraphTail, MaxTail), e \in {RecMessageEnd} }

\* Null streams: a header, a root with members of three kinds (a class with
\* a string, an Int32 and a string field; a class of two record fields; an
\* array of two), then at most MaxTail records or Int32 values, among them
\* null runs of at most MaxRun nulls.
MaxRun == 2

NullRoots ==
    { RecClassWithMembersAndTypes(1, NP, <<Na, Nb, Nc>>, <<TString, TInt32, TString>>),
      RecClassWithMembers(1, NP, <<Na, Nb>>),
      RecBinaryArray(1, 0, <<2>>, << >>, TRecord) }

NullTail ==
    { RecObjectNull, RecObjectNullMultiple(MaxRun), RecString(2, Sx),
      RecMemberReference(2), EncI32(7) }
      \cup { RecObjectNullMultiple256(k) : k \in 0..MaxRun }

NullStreams ==
    { Header \o c \o t \o e :
        c \in NullRoots, t \in SeqsUpTo(NullTail, MaxTail), e \in Endings }

\* Streams with a record tag the decoder does not decode, at the top level,
\* as a member, pulled by the resolver, or where MessageEnd is due.
Tags == {2, 8, 16, 17, 18, 19, 20, 21, 22, 23, 255, 10, 11}

TagPrefixes ==
    { << >>, Header, Header \o RecString(1, Sx),
      RecObjectNullMultiple256(MaxRun), RecObjectNullMultiple(MaxRun + 1) \o RecObjectNull,
      Header \o RecClassWithMembers(1, NP, <<Na, Nb>>),
      Header \o RecClassWithMembers(1, NP, <<Na, Nb>>) \o RecString(2, Sx),
      Header \o RecClassWithMembers(1, NP, <<Na>>) \o RecMemberReference(2),
      Header \o RecBinaryArray(1, 0, <<2>>, << >>, TRecord) \o RecObjectNull,
      Header \o RecClassWithMembers(1, NP, <<Na>>) \o RecObjectNullMultiple256(2) }

TagStreams ==
    { p \o <<b>> \o s :
        p \in TagPrefixes, b \in Tags,
        s \in {<< >>, RecMessageEnd, RecString(2, Sx) \o RecMessageEnd} }

\* Streams whose root is an object or an array that is displayed.
ShowRoots ==
    { RecClassWithMembers(1, NP, <<Na, Nb>>), RecClassWithMembers(1, NP, <<Nb, Na>>),
      RecClassWithMembersAndTypes(1, NP, <<Na, Nb, Nc>>, <<TString, TInt32, TString>>),
      RecBinaryArray(1, 0, <<2>>, << >>, TRecord) }

ShowTail ==
    { RecObjectNull, RecString(2, Sx), RecString(3, Sz), EncI32(10),
      RecMemberReference(2) }

ShowStreams ==
    { Header \o c \o t \o RecMessageEnd :
        c \in ShowRoots, t \in SeqsUpTo(ShowTail, MaxTail) }

\* The 7-bit-group little-endian encoding of a length: the low seven bits
\* first, the high bit set on every byte but the last.
RECURSIVE EncVarint(_)
EncVarint(n) ==
    IF n < 128 THEN <<n>> ELSE <<128 + (n % 128)>> \o EncVarint(n \div 128)

MaxSmall == 300

VarintInputs ==
    (0..MaxSmall) \cup
    { 16383, 16384, 16385, 65535, 2097151, 2097152, 268435455, 268435456,
      1879048192, 2147483647 }

VarintTails == { << >>, <<0>>, <<255>>, <<128, 1>> }

VarintStreams == { EncVarint(n) \o t : n \in VarintInputs, t \in VarintTails }

\* Streams whose root is a class with typed fields or an array.
TPrim(p) == <<0, <<p>> >>
TSystemClass == <<3, EncLps(NP)>>
TClass == <<4, EncLps(NP) \o EncI32(9)>>
TObjectArray == <<5, << >> >>
TStringArray == <<6, << >> >>
TPrimArray == <<7, <<8>> >>

FieldTypes ==
    { TString, TRecord, TInt32, TObject, TObjectArray, TStringArray, TSystemClass,
      TClass, TPrimArray, TPrim(2), TPrim(3), TPrim(5), TPrim(12), TPrim(13) }

MaxItems == 2

TypedRoots ==
    { RecClassWithMembersAndTypes(1, NP, <<Na>>, <<t>>) : t \in FieldTypes }
    \cup { RecClassWithMembersAndTypes(1, NP, <<Na, Nb>>, <<TString, t>>)
           : t \in {TInt32, TRecord, TObject, TStringArray, TPrim(3), TPrim(13)} }
    \cup { RecSystemClassWithMembersAndTypes(1, NP, <<Na, Nb>>, <<TRecord, t>>)
           : t \in {TString, TObjectArray, TPrim(5)} }
    \cup { RecClassWithMembers(1, NP, <<Na, Nb>>),
           RecClassWithMembers(1, NP, <<Na, Na>>),
           RecClassWithMembersAndTypes(1, NP, <<Na, Na>>, <<TString, TInt32>>) }
    \cup { RecArraySinglePrimitive(1, n, p, << >>)
           : n \in 0..MaxItems, p \in {2, 3, 5, 8, 12, 13} }
    \cup { RecBinaryArray(1, 0, l, << >>, t)
           : l \in {<< >>, <<0>>, <<2>>}, t \in {TRecord, TString, TInt32} }
    \cup { RecBinaryArray(1, 1, <<3>>, << >>, TRecord),
           RecBinaryArray(1, 2, <<1, 2>>, << >>, TRecord),
           RecBinaryArray(1, 2, <<2, 0>>, << >>, TRecord),
           RecBinaryArray(1, 3, <<2>>, <<5>>, TRecord),
           RecBinaryArray(1, 4, <<1>>, <<7>>, TObject),
           RecBinaryArray(1, 5, <<2, 1>>, <<1, 0>>, TRecord),
           RecBinaryArray(1, 2, <<65536, 65536>>, << >>, TRecord),
           RecBinaryArray(1, 2, <<65536, 65536, 65536, 65536>>, << >>, TRecord) }

\* a record of a class inside the root: an instance of the root's class, or
\* a class registered under the root's id again
TypedNested == { << >>, RecClassWithId(2, 1), RecClassWithMembers(1, NP, <<Nb>>) }

TypedItems ==
    { RecObjectNull, RecString(2, Sx), EncI32(10), RecObjectNullMultiple256(MaxRun) }

TypedStreams ==
    { Header \o c \o n \o t \o RecMessageEnd :
        c \in TypedRoots, n \in TypedNested, t \in SeqsUpTo(TypedItems, MaxItems) }

(***************************************************************************)
(* The state machine: one call of parse_nrbf.                              *)
(***************************************************************************)
Start_(streams) ==
    /\ dec \in {NewSession(s) : s \in streams}
    /\ pc = "header"
    /\ root = Unset
    /\ endv = Unset
    /\ out = Unset

Init == Start_(FlatStreams)

InitGraph == Start_(GraphStreams)

InitNull == Start_(NullStreams)

InitTags == Start_(TagStreams)

InitShow == Start_(ShowStreams)

\* the typed streams, decoded by a build with and by one without overflow
\* checks
InitTyped ==
    /\ dec \in { [NewSession(s) EXCEPT !.overflow_checks = b]
                    : s \in TypedStreams, b \in BOOLEAN }
    /\ pc = "header"
    /\ root = Unset
    /\ endv = Unset
    /\ out = Unset

After(st, then) == IF Ok(st) THEN then ELSE EndOf(st)

\* while decoder.root_id.is_none() { decoder.next_value_record(); }
header_step(r) ==
    /\ dec' = r.st
    /\ pc' = After(r.st, "header")
    /\ UNCHANGED <<root, endv, out>>

HeaderLoop ==
    /\ pc = "header"
    /\ dec.root_id = None
    /\ header_step(next_value_record(dec))

\* let root = decoder.resolve_references(Value::Reference(root_id));
Resolve ==
    /\ pc = "header"
    /\ dec.root_id # None
    /\ \E r \in resolve_references(dec, Reference(dec.root_id.v), 0) :
          /\ dec' = r.st
          /\ root' = IF Ok(r.st) THEN r.v ELSE Unset
          /\ pc' = After(r.st, "end")
    /\ UNCHANGED <<endv, out>>

\* let end = decoder.next_value_record(); assert_eq!(end, Value::Bottom); root
end_step(r) ==
    /\ dec' = r.st
    /\ endv' = r.v
    /\ pc' = After(r.st, "returned")
    /\ UNCHANGED <<root, out>>

CheckEnd ==
    /\ pc = "end"
    /\ end_step(check_end(dec))

Next == HeaderLoop \/ Resolve \/ CheckEnd

Spec == Init /\ [][Next]_vars

SpecGraph == InitGraph /\ [][Next]_vars

SpecNull == InitNull /\ [][Next]_vars

SpecTags == InitTags /\ [][Next]_vars

SpecTyped == InitTyped /\ [][Next]_vars

\* println!("{}", parse_nrbf(&mut stream)) (examples/)
Display ==
    /\ pc = "returned"
    /\ out' \in fmt_indent(root, 0)
    /\ pc' = "shown"
    /\ UNCHANGED <<dec, root, endv>>

NextShow == Next \/ Display

SpecShow == InitShow /\ [][NextShow]_vars

\* read_variable_length called on a stream of its own
InitVarint ==
    /\ dec \in {NewSession(s) : s \in VarintStreams}
    /\ pc = "varint"
    /\ root = Unset
    /\ endv = Unset
    /\ out = Unset

varint_step(r) ==
    /\ dec' = r.st
    /\ out' = IF Ok(r.st) THEN [tag |-> "usize", n |-> r.v] ELSE Unset
    /\ pc' = After(r.st, "read")
    /\ UNCHANGED <<root, endv>>

ReadVarint ==
    /\ pc = "varint"
    /\ varint_step(read_variable_length(dec))

SpecVarint == InitVarint /\ [][ReadVarint]_vars

(***************************************************************************)
(* Properties of the decode.                                               *)
(***************************************************************************)
\* the values at every depth of the tree `v`, `v` among them
RECURSIVE Nodes(_)
Nodes(v) ==
    {v} \cup
    (IF v.tag = "Object" THEN UNION { Nodes(v.members[k]) : k \in DOMAIN v.members }
     ELSE IF v.tag = "Array" THEN UNION { Nodes(v.elems[i]) : i \in DOMAIN v.elems }
     ELSE {})

HasTag(v, tag) == \E n \in Nodes(v) : n.tag = tag

Log == dec.log
LastLog == Log[Len(Log)]
I32At(at) == I32OfBytes(SubSeq(dec.stream, at + 1, at + 4))

\* C1: the value parse_nrbf returns holds no Reference at any depth.
C1_NoReference == pc = "returned" => ~HasTag(root, "Reference")

\* a returned Object whose stored form held a Reference, one member of
\* which is itself an Object or Array reached through a Reference
C1_Witness ==
    /\ pc = "returned"
    /\ root.tag = "Object"
    /\ HasTag(dec.values[dec.root_id.v], "Reference")
    /\ \E k \in DOMAIN root.members : root.members[k].tag \in {"Object", "Array"}

\* C2: the value parse_nrbf returns holds no Bottom at any depth.
C2_NoBottom == pc = "returned" => ~HasTag(root, "Bottom")

\* C3: parse_nrbf returns only if the record read after the root is resolved
\* is the MessageEnd record.
C3_EndIsMessageEnd ==
    pc = "returned" => LastLog.k = "ret" /\ LastLog.tag = "MessageEnd"

\* the value of the first and of the last insert under `id`
Writes == dec.writes
WritesOf(id) == { i \in DOMAIN Writes : Writes[i].id = id }
FirstWrite(id) == Writes[CHOOSE i \in WritesOf(id) : \A j \in WritesOf(id) : i <= j].v
LastWrite(id) == Writes[CHOOSE i \in WritesOf(id) : \A j \in WritesOf(id) : i >= j].v

\* C4 (as stated): the values table keeps the first value stored under an
\* object id; a later record with the same id does not overwrite it.
C4_FirstWriteWins ==
    \A id \in DOMAIN dec.values : dec.values[id] = FirstWrite(id)

\* C4 (amended): the values table holds one value per object id stored so
\* far, and it is the value of the last insert under that id.
C4_LastWriteWins ==
    /\ DOMAIN dec.values = { Writes[i].id : i \in DOMAIN Writes }
    /\ \A id \in DOMAIN dec.values : dec.values[id] = LastWrite(id)

\* two records stored different values under one id
C4_Witness ==
    \E i, j \in DOMAIN Writes :
        /\ i < j
        /\ Writes[i].id = Writes[j].id
        /\ Writes[i].v # Writes[j].v
        /\ dec.values[Writes[j].id] = LastWrite(Writes[j].id)
        /\ LastWrite(Writes[j].id) # FirstWrite(Writes[j].id)

\* the calls of next_value_record that read a ClassWithId record, whole
\* up to its class id, naming a class id not in the class table
UnknownClassCalls ==
    { i \in DOMAIN Log :
        /\ Log[i].k = "call"
        /\ RecordTypeOf(Log[i].byte) = "ClassWithId"
        /\ Log[i].start + 9 <= Len(dec.stream)
        /\ I32At(Log[i].start + 5) \notin Log[i].classes }

\* C9: a ClassWithId record whose class id is not registered aborts the
\* decode: nothing is stored after it is met, its call and the calls around
\* it hand nothing back, and parse_nrbf does not return.
C9_UnknownClassAborts ==
    \A i \in UnknownClassCalls :
        /\ pc = "aborted"
        /\ dec.fault = "Class is not yet defined"
        /\ i = Len(Log)
        /\ Len(Writes) = Log[i].writes

\* an unregistered ClassWithId met while other classes are registered
C9_Witness ==
    \E i \in UnknownClassCalls : Log[i].classes # {} /\ pc = "aborted"

\* the calls of next_value_record that read a whole SerializationHeader
\* record whose version is not 1.0
BadVersionCalls ==
    { i \in DOMAIN Log :
        /\ Log[i].k = "call"
        /\ RecordTypeOf(Log[i].byte) = "SerializationHeader"
        /\ Log[i].start + 17 <= Len(dec.stream)
        /\ (I32At(Log[i].start + 9) # 1 \/ I32At(Log[i].start + 13) # 0) }

\* C10: a SerializationHeader whose major version is not 1 or whose minor
\* version is not 0 aborts the decode wherever it is read.
C10_BadVersionAborts ==
    \A i \in BadVersionCalls :
        /\ pc = "aborted"
        /\ dec.fault \in {"Major version must be 1", "Minor version must be 0"}
        /\ i = Len(Log)

\* a header of minor version 1 read as the member of a class record, after
\* a header of version 1.0
C10_Witness ==
    \E i \in BadVersionCalls :
        /\ i > 2
        /\ I32At(Log[i].start + 13) = 1
        /\ Log[i - 1].k = "call"
        /\ RecordTypeOf(Log[i - 1].byte) = "ClassWithMembers"
        /\ pc = "aborted"

\* parse_nrbf has ended, with a value or without
Done == pc \notin {"header", "end"}

\* no two inserts into the values table were under one object id
UniqueIds == \A i, j \in DOMAIN Writes : Writes[i].id = Writes[j].id => i = j

Res == dec.res

\* C7 (as stated): in the tree parse_nrbf returns, every Reference to one
\* object id was resolved to the same content, whatever records were pulled
\* between the resolutions.
C7_SameContent ==
    pc = "returned" =>
        \A i, j \in DOMAIN Res : Res[i].id = Res[j].id => Res[i].v = Res[j].v

\* C7 (amended): in a decode that stores no object id twice, every Reference
\* to one object id is resolved to the same content.
C7_SameContentUniqueIds ==
    UniqueIds =>
        \A i, j \in DOMAIN Res : Res[i].id = Res[j].id => Res[i].v = Res[j].v

\* a tree returned with one id resolved twice, a record stored in between
C7_Witness ==
    /\ pc = "returned"
    /\ UniqueIds
    /\ \E i, j \in DOMAIN Res :
          /\ i < j
          /\ Res[i].id = Res[j].id
          /\ Res[i].writes < Res[j].writes

\* what a caller of parse_nrbf sees of an outcome: the tree, or an abort
Obs(kind, value) ==
    IF kind = "returned" THEN [kind |-> "returned", value |-> value] ELSE [kind |-> "abort"]
ObsOf(o) == Obs(o.kind, o.value)
ObsNow == Obs(pc, root)

\* C8 (as stated): every run of parse_nrbf on the stream of this run ends
\* as this run did: with an abort, or with an equal tree.
C8_Deterministic ==
    Done => \A o \in parse_nrbf(dec.stream) : ObsOf(o) = ObsNow

\* C8 (amended): the same, for a run that stores no object id twice.
C8_DeterministicUniqueIds ==
    Done /\ UniqueIds => \A o \in parse_nrbf(dec.stream) : ObsOf(o) = ObsNow

\* a tree returned by a run that stored no id twice, on a stream the
\* resolver can walk in more than one order
C8_Witness ==
    /\ pc = "returned"
    /\ UniqueIds
    /\ Cardinality({ o.st.res : o \in parse_nrbf(dec.stream) }) > 1

\* The records of a stream read one after another, as the decode reads
\* them whoever asks for the next: the log of next_value_record called
\* until the stream is used up or a call aborts.
RECURSIVE scan(_)
scan(st) ==
    IF ~Ok(st) \/ (st.pos >= Len(st.stream) /\ st.null_count = 0) THEN st
    ELSE scan(next_value_record(st).st)

Records == scan(NewSession(dec.stream)).log

\* the records that store a value under an object id of their own
DefTags ==
    { "ClassWithId", "ClassWithMembers", "ClassWithMembersAndTypes",
      "SystemClassWithMembersAndTypes", "BinaryArray", "ArraySinglePrimitive",
      "BinaryObjectString" }

Inside(log, i, j) ==
    /\ log[j].start <= log[i].start
    /\ log[i].end <= log[j].end
    /\ (log[j].start < log[i].start \/ log[i].end < log[j].end)

\* the value-storing records of `log` that are no part of another record
TopDefs(log) ==
    { i \in DOMAIN log :
        /\ log[i].k = "ret"
        /\ log[i].tag \in DefTags
        /\ \A j \in DOMAIN log : log[j].k = "ret" => ~Inside(log, i, j) }

\* <<a, b>>: record a holds a MemberReference to the id of record b, and b
\* comes after a
ForwardPairs(log) ==
    { p \in TopDefs(log) \X TopDefs(log) :
        /\ log[p[1]].end <= log[p[2]].start
        /\ \E m \in DOMAIN log :
              /\ log[m].k = "ret"
              /\ log[m].tag = "MemberReference"
              /\ Inside(log, m, p[1])
              /\ log[m].v = log[p[2]].v }

\* the stream with the bytes of record b moved to just before record a
MovedBefore(stream, log, a, b) ==
    SubSeq(stream, 1, log[a].start)
      \o SubSeq(stream, log[b].start + 1, log[b].end)
      \o SubSeq(stream, log[a].start + 1, log[b].start)
      \o SubSeq(stream, log[b].end + 1, Len(stream))

\* the outcomes of parse_nrbf on the stream with B's record moved before A's
Moved(p) == parse_nrbf(MovedBefore(dec.stream, Records, p[1], p[2]))

\* C6 (as stated): with B's record moved from after A's record to before
\* it, parse_nrbf ends as it does on the stream as it is.
C6_ForwardReference ==
    Done =>
        \A p \in ForwardPairs(Records) :
            \A o \in Moved(p) : ObsOf(o) = ObsNow

\* C6 (amended): if the decode returns a tree and stores no object id
\* twice, then every decode of the stream with B's record moved before A's
\* record that returns a tree returns an equal tree.
C6_ForwardReferenceIfReturned ==
    pc = "returned" /\ UniqueIds =>
        \A p \in ForwardPairs(Records) :
            \A o \in Moved(p) : o.kind = "returned" => o.value = root

\* a tree returned with B's record after A's, and returned with it before
C6_Witness ==
    /\ pc = "returned"
    /\ UniqueIds
    /\ \E p \in ForwardPairs(Records) :
          \E o \in Moved(p) : o.kind = "returned" /\ o.value = root

RunTags == {"ObjectNullMultiple256", "ObjectNullMultiple"}

\* the calls of next_value_record of this run that read a null-run record,
\* whole up to its count
RunCalls ==
    { i \in DOMAIN Log :
        /\ Log[i].k = "call"
        /\ RecordTypeOf(Log[i].byte) \in RunTags
        /\ Log[i].start + (IF Log[i].byte = 13 THEN 2 ELSE 5) <= Len(dec.stream) }

RunCount(i) ==
    IF Log[i].byte = 13 THEN dec.stream[Log[i].start + 2] ELSE I32At(Log[i].start + 1)

\* the stream with the null-run record read by call i written as ObjectNull
\* records, one per null of the run
Expanded(i) ==
    SubSeq(dec.stream, 1, Log[i].start)
      \o [n \in 1..RunCount(i) |-> 10]
      \o SubSeq(dec.stream, Log[i].start + (IF Log[i].byte = 13 THEN 3 ELSE 6),
                Len(dec.stream))

\* The values next_value_record handed to its callers, in order.  A
\* null-run record hands on what its own call of next_value_record gave:
\* of the two returns the log holds, the inner one is left out.
RECURSIVE ValueSeq(_, _)
ValueSeq(log, i) ==
    IF i > Len(log) THEN << >>
    ELSE (IF /\ log[i].k = "ret"
             /\ ~(i < Len(log) /\ log[i + 1].k = "ret" /\ log[i + 1].tag \in RunTags)
          THEN <<log[i].v>> ELSE << >>) \o ValueSeq(log, i + 1)

Tables(st) ==
    [libraries |-> st.libraries, classes |-> st.classes, values |-> st.values,
     root_id |-> st.root_id, header_id |-> st.header_id]

Seen(how, st) == [out |-> how, values |-> ValueSeq(st.log, 1), tables |-> Tables(st)]
SeenOf(o) == Seen(ObsOf(o), o.st)
SeenNow == Seen(ObsNow, dec)

\* C5 (as stated): with a null-run record written as that many ObjectNull
\* records, the decode hands out the same values, leaves the same tables
\* and ends the same way.
C5_NullRun ==
    Done =>
        \A i \in RunCalls :
            /\ SeenNow \in { SeenOf(o) : o \in parse_nrbf(Expanded(i)) }
            /\ \A o \in parse_nrbf(Expanded(i)) :
                  SeenOf(o) \in { SeenOf(q) : q \in parse_nrbf(dec.stream) }

\* C5 (amended): the same, for a decode that reads no primitive member off
\* the stream while nulls of a run are pending.
C5_NullRunNoneSkipped ==
    Done /\ ~dec.skipped =>
        \A i \in RunCalls :
            /\ SeenNow \in { SeenOf(o) : o \in parse_nrbf(Expanded(i)) }
            /\ \A o \in parse_nrbf(Expanded(i)) :
                  SeenOf(o) \in { SeenOf(q) : q \in parse_nrbf(dec.stream) }

\* a tree returned by a decode in which a run of two nulls outlasted the
\* object it began in, the resolver's next call taking the second null
C5_Witness ==
    /\ pc = "returned"
    /\ ~dec.skipped
    /\ \E i \in RunCalls :
          /\ RunCount(i) = 2
          /\ \E j \in DOMAIN Log :
                /\ j > i
                /\ Log[j].k = "ret"
                /\ Log[j].tag = "Pending"
                /\ \E m \in DOMAIN Log :
                      i < m /\ m < j /\ Log[m].k = "ret" /\ Log[m].tag \in DefTags

(***************************************************************************)
(* Record tags without a decoder.                                          *)
(***************************************************************************)
\* the bytes that are a RecordType, and those of them next_value_record has
\* no arm for
RecordTags == { b \in 0..255 : RecordTypeOf(b) # "?" }

Unhandled ==
    { b \in RecordTags :
        RecordTypeOf(b) \in { "SystemClassWithMembers", "MemberPrimitiveTyped",
                              "ArraySingleObject", "ArraySingleString",
                              "MethodCall", "MethodReturn" } }

\* C11: a record tag read by next_value_record that is outside the RecordType
\* enumeration (0-17, 21, 22) or is one of the unsupported tags 2, 8, 16, 17,
\* 21, 22 aborts the decode: the call that read it is the last thing that
\* happened, nothing was returned for it and no byte after it was consumed.
C11_BadTagAborts ==
    /\ RecordTags = (0..17) \cup {21, 22}
    /\ Unhandled = {2, 8, 16, 17, 21, 22}
    /\ \A i \in DOMAIN Log :
          (Log[i].k = "call" /\ Log[i].byte \in (0..255) \ (RecordTags \ Unhandled))
          => /\ i = Len(Log)
             /\ pc = "aborted"
             /\ dec.status = "panic"
             /\ dec.fault = IF Log[i].byte \in Unhandled
                            THEN "Unhandled record type" ELSE "Unexpected enum value"
             /\ dec.pos = Log[i].start + 1
             /\ root = Unset \/ endv = Bottom

\* an unsupported tag read as the member of an object, after a decoded member
C11_Witness ==
    /\ pc = "aborted"
    /\ Len(Log) > 3
    /\ LastLog.k = "call" /\ LastLog.byte \in Unhandled
    /\ Log[Len(Log) - 1].k = "ret" /\ Log[Len(Log) - 1].tag = "BinaryObjectString"
    /\ Log[Len(Log) - 2].k = "call"
    /\ Log[Len(Log) - 3].k = "call" /\ Log[Len(Log) - 3].byte = 3

(***************************************************************************)
(* A Reference to an id that no record defines.                            *)
(***************************************************************************)
\* the ids some record of the stream stores a value under
DefinedIds == { w.id : w \in { scan(NewSession(dec.stream)).writes[i]
                               : i \in DOMAIN scan(NewSession(dec.stream)).writes } }

\* the resolver reached a Reference to an id that no record defines
SoughtUndefined == dec.sought # {} /\ \E id \in dec.sought : id \notin DefinedIds

\* C12 as stated: once the resolver has reached a Reference to an id that no
\* record of the stream defines, parse_nrbf neither returns nor aborts.
C12_NeverEnds == SoughtUndefined => pc \notin {"returned", "aborted"}

\* next_value_record called until a call panics
RECURSIVE Drain(_)
Drain(st) == IF ~Ok(st) THEN st ELSE Drain(next_value_record(st).st)

\* C12: once the resolver has reached a Reference to an id that no record of
\* the stream defines, parse_nrbf does not return: the resolver called
\* next_value_record for every record left in the stream, until a call
\* panicked, at the latest for want of bytes at the end of the stream.
C12_AbortsAtEnd ==
    SoughtUndefined
    => /\ pc = "aborted"
       /\ root = Unset
       /\ dec.status = "panic"
       /\ dec.log = Drain(NewSession(dec.stream)).log
       /\ dec.pos = Drain(NewSession(dec.stream)).pos
       /\ dec.fault = Drain(NewSession(dec.stream)).fault

\* the resolver read two records for an id that is not defined and ran out of
\* stream
C12_Witness ==
    /\ SoughtUndefined
    /\ pc = "aborted"
    /\ dec.fault = "Cannot read from stream"
    /\ dec.pos = Len(dec.stream)
    /\ \E i, j \in DOMAIN Log :
          /\ i < j /\ Log[i].k = "ret" /\ Log[j].k = "ret"
          /\ Log[i].tag = "BinaryObjectString" /\ Log[j].tag = "MessageEnd"
          /\ Log[i].v.id \notin dec.sought

(***************************************************************************)
(* The order in which the members of an object are displayed.              *)
(***************************************************************************)
\* the member names of the outermost object of a text, in the order of the text
RECURSIVE ShownMembers(_, _)
ShownMembers(text, i) ==
    IF i > Len(text) THEN << >>
    ELSE IF text[i].w = "member" /\ text[i].indent = 2
    THEN <<text[i].name>> \o ShownMembers(text, i + 1)
    ELSE ShownMembers(text, i + 1)

FieldNames(class) == [i \in DOMAIN class.fields |-> class.fields[i].name]

\* C13: the members of a displayed Object come in the order of the field
\* names of the Class it was decoded from.
C13_SchemaOrder ==
    (pc = "shown" /\ root.tag = "Object")
    => ShownMembers(out, 1) = FieldNames(dec.classes[dec.root_id.v])

(***************************************************************************)
(* read_variable_length against the encoding of a length.                  *)
(***************************************************************************)
\* C14: read_variable_length applied to the 7-bit-group little-endian encoding
\* of n (whatever follows it) returns n, consumes exactly the bytes of the
\* encoding, and stops at the first byte whose high bit is clear.
C14_VarintLaw ==
    pc # "varint"
    => \A n \in VarintInputs :
          (Len(dec.stream) >= Len(EncVarint(n))
             /\ SubSeq(dec.stream, 1, Len(EncVarint(n))) = EncVarint(n))
          => /\ pc = "read"
             /\ out = [tag |-> "usize", n |-> n]
             /\ dec.pos = Len(EncVarint(n))
             /\ dec.stream[dec.pos] < 128
             /\ \A i \in 1..(dec.pos - 1) : dec.stream[i] >= 128

\* a length of three groups read off a stream that goes on
C14_Witness ==
    /\ pc = "read"
    /\ out.n = 16385
    /\ dec.pos = 3
    /\ dec.stream = <<129, 128, 1, 128, 1>>

(***************************************************************************)
(* A call of next_value_record while nulls of a run are pending.           *)
(***************************************************************************)
\* parse_nrbf is about to call next_value_record itself
CallsNext == (pc = "header" /\ dec.root_id = None) \/ pc = "end"

\* C15: a call of next_value_record made while the null-run counter is nonzero
\* returns Null, takes one off the counter, consumes no byte of the stream
\* and leaves libraries, classes, values, root_id and header_id as they were.
C15_PendingNullFrame ==
    [][ (CallsNext /\ dec.null_count > 0)
        => /\ dec'.null_count = dec.null_count - 1
           /\ dec'.pos = dec.pos
           /\ dec'.stream = dec.stream
           /\ Tables(dec') = Tables(dec)
           /\ dec'.writes = dec.writes
           /\ dec'.defs = dec.defs
           /\ Len(dec'.log) = Len(dec.log) + 1
           /\ SubSeq(dec'.log, 1, Len(dec.log)) = dec.log
           /\ dec'.log[Len(dec'.log)].k = "ret"
           /\ dec'.log[Len(dec'.log)].tag = "Pending"
           /\ dec'.log[Len(dec'.log)].v = Null
           /\ pc = "end" => endv' = Null ]_vars

\* the header loop has taken the pending nulls of a run of three, one by one
C15_Witness ==
    /\ pc = "header"
    /\ dec.null_count = 0
    /\ Len(Log) = 5
    /\ Log[1].k = "call" /\ Log[1].byte = 14
    /\ Log[4].tag = "Pending" /\ Log[5].tag = "Pending"
    /\ dec.pos = 5

(***************************************************************************)
(* The null-run records.                                                   *)
(***************************************************************************)
\* the call of next_value_record that return i of the log ends
CallOf(i) == CHOOSE c \in 1..(i - 1) : Log[c].k = "call" /\ Log[c].start = Log[i].start

RunReturns == { i \in DOMAIN Log : Log[i].k = "ret" /\ Log[i].tag \in RunTags }

NoRunActiveHolds == dec.fault # "assert_eq!(self.null_count, 0)"

\* C16 as stated: no null-run record is read while a run is active, and every
\* null-run record yields the first Null of its run and leaves count - 1
\* nulls pending.
C16_RunYieldsFirstNull ==
    /\ NoRunActiveHolds
    /\ \A i \in RunReturns :
          Log[i].v = Null /\ Log[i].nulls = RunCount(CallOf(i)) - 1

\* C16: no null-run record is read while a run is active.  A null-run record
\* of count k >= 1 yields the first Null of its run and leaves k - 1 nulls
\* pending; one of count 0 yields what the call of next_value_record it makes
\* yields, read from the bytes after it.
C16_RunOfAtLeastOne ==
    /\ NoRunActiveHolds
    /\ \A i \in RunReturns :
          /\ Log[i - 1].k = "ret"
          /\ Log[i].v = Log[i - 1].v
          /\ Log[i].nulls = Log[i - 1].nulls
          /\ Log[i].end = Log[i - 1].end
          /\ IF RunCount(CallOf(i)) >= 1
             THEN /\ Log[i].v = Null
                  /\ Log[i].nulls = RunCount(CallOf(i)) - 1
                  /\ Log[i - 1].tag = "Pending"
                  /\ CallOf(i) = i - 2
                  /\ Log[i].end = Log[i].start + (IF Log[CallOf(i)].byte = 13 THEN 2 ELSE 5)
             ELSE /\ Log[i - 1].tag # "Pending"
                  /\ Log[i - 1].start = Log[i].start + (IF Log[CallOf(i)].byte = 13 THEN 2 ELSE 5)

\* a run of two read as the member of an object: one null is left
C16_Witness ==
    \E i \in RunReturns :
       /\ RunCount(CallOf(i)) = 2
       /\ Log[i].nulls = 1
       /\ Log[i].v = Null
       /\ \E c \in 1..(CallOf(i) - 1) : Log[c].k = "call" /\ Log[c].byte \in {3, 5}

(***************************************************************************)
(* The records that define a class and its first instance.                 *)
(***************************************************************************)
Defs == dec.defs

ClassTags ==
    { "ClassWithMembers", "ClassWithMembersAndTypes", "SystemClassWithMembersAndTypes" }

ClassReturns == { r \in DOMAIN Log : Log[r].k = "ret" /\ Log[r].tag \in ClassTags }

\* what the record that return r ends registered (id and class), what it
\* stored (id and value), and the class its id stood for when it ended
Declared(r) == Defs[Log[CallOf(r)].defs + 1]
StoredBy(r) == Writes[Log[r].writes]
RegisteredAt(r, id) ==
    Defs[CHOOSE n \in 1..Log[r].defs :
            Defs[n].id = id /\ \A m \in (n + 1)..Log[r].defs : Defs[m].id # id].class

\* a class written as the head of a class-defining record
TypeOf(field) ==
    << CHOOSE b \in 0..8 : BinaryTypeOf(b) = field.bt,
       CASE field.ai.k = "Nothing" -> << >>
         [] field.ai.k = "PrimitiveType" ->
              << CHOOSE b \in 0..18 : PrimitiveTypeOf(b) = field.ai.p >>
         [] field.ai.k = "ClassName" -> EncLps(field.ai.s)
         [] field.ai.k = "Class" -> EncLps(field.ai.c.name) \o EncI32(field.ai.c.library_id) >>

HeadOf(byte, id, class) ==
    CASE byte = 3 -> RecClassWithMembers(id, class.name, FieldNames(class))
      [] byte = 5 -> RecClassWithMembersAndTypes(id, class.name, FieldNames(class),
                        [i \in DOMAIN class.fields |-> TypeOf(class.fields[i])])
      [] byte = 4 -> RecSystemClassWithMembersAndTypes(id, class.name, FieldNames(class),
                        [i \in DOMAIN class.fields |-> TypeOf(class.fields[i])])

IsAt(bytes, at) ==
    /\ at + Len(bytes) <= Len(dec.stream)
    /\ SubSeq(dec.stream, at + 1, at + Len(bytes)) = bytes

\* the returns of the calls of next_value_record made by the call c that
\* return r ends, and not by a call inside it, in order
Enclosed(j, c, r) ==
    \E r2 \in (j + 1)..(r - 1) :
       /\ Log[r2].k = "ret" /\ Log[r2].tag # "Pending"
       /\ c < CallOf(r2) /\ CallOf(r2) < j

RECURSIVE DirectFrom(_, _, _)
DirectFrom(j, c, r) ==
    IF j >= r THEN << >>
    ELSE (IF Log[j].k = "ret" /\ ~Enclosed(j, c, r) THEN <<j>> ELSE << >>)
           \o DirectFrom(j + 1, c, r)

Direct(r) == DirectFrom(CallOf(r) + 1, CallOf(r), r)

\* a primitive as it stands in the stream at `at`
PrimAt(p, at) ==
    CASE p = "Int32" -> I32(I32At(at))
      [] p = "Byte" -> U8(dec.stream[at + 1])
      [] OTHER -> Unset
PrimSize(p) == CASE p = "Int32" -> 4 [] p = "Byte" -> 1 [] OTHER -> 0

\* no field after field k has the name of field k
LastOfName(fields, k) ==
    \A j \in (k + 1)..Len(fields) : fields[j].name # fields[k].name

\* members k.. of the object were decoded field by field from `at` on: a
\* primitive field from the bytes, any other field by the next direct call;
\* the member of a name holds the value of the last field of that name
RECURSIVE MembersPerSchema(_, _, _, _, _, _)
MembersPerSchema(fields, members, k, at, direct, m) ==
    IF k > Len(fields) THEN m = Len(direct) + 1
    ELSE IF fields[k].bt = "Primitive"
    THEN /\ LastOfName(fields, k)
            => members[fields[k].name] = PrimAt(fields[k].ai.p, at)
         /\ MembersPerSchema(fields, members, k + 1, at + PrimSize(fields[k].ai.p),
                             direct, m)
    ELSE /\ m <= Len(direct)
         /\ Log[direct[m]].start = at
         /\ LastOfName(fields, k) => members[fields[k].name] = Log[direct[m]].v
         /\ MembersPerSchema(fields, members, k + 1, Log[direct[m]].end, direct, m + 1)

\* the record that return r ends registered its class, decoded an instance
\* of it per its schema, stored it and returned a Reference to it; the
\* class was registered when the calls inside it were made
ClassRecordDone(r) ==
    /\ IsAt(HeadOf(Log[CallOf(r)].byte, Declared(r).id, Declared(r).class),
            Log[r].start)
    /\ Log[r].v = Reference(Declared(r).id)
    /\ StoredBy(r).id = Declared(r).id
    /\ StoredBy(r).v.tag = "Object"
    /\ StoredBy(r).v.cls = Declared(r).class.name
    /\ DOMAIN StoredBy(r).v.members
          = { Declared(r).class.fields[i].name : i \in DOMAIN Declared(r).class.fields }
    /\ MembersPerSchema(Declared(r).class.fields, StoredBy(r).v.members, 1,
                        Log[r].start
                          + Len(HeadOf(Log[CallOf(r)].byte, Declared(r).id,
                                       Declared(r).class)),
                        Direct(r), 1)
    /\ \A c \in (CallOf(r) + 1)..(r - 1) :
          Log[c].k = "call" => Declared(r).id \in Log[c].classes
    /\ \A n \in (CallOf(r) + 1)..(r - 1) :
          (Log[n].k = "ret" /\ Log[n].tag = "ClassWithId"
             /\ I32At(Log[n].start + 5) = Declared(r).id
             /\ ~Enclosed(n, CallOf(r), r))
          => StoredBy(n).v.cls = Declared(r).class.name

\* no record inside the record that return r ends registered a class under
\* the id of that record
NotRegisteredAgain(r) ==
    \A n \in (Log[CallOf(r)].defs + 2)..Log[r].defs : Defs[n].id # Declared(r).id

\* C17 as stated: when a class-defining record with id i completes,
\* classes[i] is the schema the record declared, values[i] is an Object of
\* that class decoded per that schema, the record yields Reference(i), and
\* the class was registered before the members were decoded.
C17_ClassRegistered ==
    \A r \in ClassReturns :
       /\ ClassRecordDone(r)
       /\ RegisteredAt(r, Declared(r).id) = Declared(r).class

\* C17: as stated, but classes[i] is the schema the record declared only if
\* no record among the members registered a class under i again; the
\* class registered last under i is the one that stays.
C17_ClassRegisteredLast ==
    \A r \in ClassReturns :
       /\ ClassRecordDone(r)
       /\ RegisteredAt(r, Declared(r).id) = Defs[Log[r].defs].class
             \/ Defs[Log[r].defs].id # Declared(r).id
       /\ NotRegisteredAgain(r) => RegisteredAt(r, Declared(r).id) = Declared(r).class

\* a class record has completed whose member is a ClassWithId record of the
\* class it defines
C17_Witness ==
    \E r \in ClassReturns :
       /\ Log[CallOf(r)].byte = 5
       /\ Declared(r).id = 1
       /\ StoredBy(r).v.members[Na] = Reference(2)
       /\ \E n \in DOMAIN Log :
             /\ Log[n].k = "ret" /\ Log[n].tag = "ClassWithId"
             /\ n < r /\ CallOf(r) < n
             /\ I32At(Log[n].start + 5) = 1

(***************************************************************************)
(* The arrays the array records store.                                     *)
(***************************************************************************)
ArrayReturns ==
    { r \in DOMAIN Log : Log[r].k = "ret"
                            /\ Log[r].tag \in {"BinaryArray", "ArraySinglePrimitive"} }

\* n is the product of lengths i.. (of natural numbers, not of usize)
RECURSIVE ProductIs(_, _, _)
ProductIs(lengths, i, n) ==
    IF i > Len(lengths) THEN n = 1
    ELSE IF lengths[i] = 0 THEN n = 0
    ELSE n % lengths[i] = 0 /\ ProductIs(lengths, i + 1, n \div lengths[i])

\* the array header as it stands in the stream at `at`
ArrayTypeAt(at) == dec.stream[at + 6]
RankAt(at) == I32At(at + 6)
LengthsAt(at) == [k \in 1..RankAt(at) |-> I32At(at + 6 + 4 * k)]
PrimitiveAt(at) == PrimitiveTypeOf(dec.stream[at + 10])

\* the Array the BinaryArray record that return r ends stored: the lengths
\* of the record, a lower bound per dimension, zero if the type has no
\* offsets, and the values of the calls the record made, in order
BinaryArrayShape(r, a) ==
    /\ a.tag = "Array"
    /\ a.lens = LengthsAt(Log[r].start)
    /\ Len(a.lbs) = Len(a.lens)
    /\ ArrayTypeAt(Log[r].start) \in {0, 1, 2} => \A k \in DOMAIN a.lbs : a.lbs[k] = 0
    /\ ProductIs(a.lens, 1, Len(a.elems))
    /\ a.elems = [k \in DOMAIN Direct(r) |-> Log[Direct(r)[k]].v]

\* the Array the ArraySinglePrimitive record that return r ends stored
PrimitiveArrayShape(r, a) ==
    /\ a.tag = "Array"
    /\ a.lens = << I32At(Log[r].start + 5) >>
    /\ a.lbs = <<0>>
    /\ Len(a.elems) = a.lens[1]
    /\ \A k \in DOMAIN a.elems :
          a.elems[k] = PrimAt(PrimitiveAt(Log[r].start),
                              Log[r].start + 10
                                + (k - 1) * PrimSize(PrimitiveAt(Log[r].start)))

ArrayShape(r) ==
    /\ StoredBy(r).id = I32At(Log[r].start + 1)
    /\ Log[r].v = Reference(StoredBy(r).id)
    /\ IF Log[r].tag = "BinaryArray" THEN BinaryArrayShape(r, StoredBy(r).v)
       ELSE PrimitiveArrayShape(r, StoredBy(r).v)

\* C18: every Array that a BinaryArray or ArraySinglePrimitive record stores
\* has as many elements as the product of its lengths, in stream order, and
\* one lower bound per dimension; the lower bounds are zero for the types
\* without offsets and for ArraySinglePrimitive, which stores lengths [n]
\* and lower bounds [0].
C18_ArrayShape == \A r \in ArrayReturns : ArrayShape(r)

\* the same of the decodes in which no product of lengths overflowed usize
\* unnoticed: a build with overflow checks panics there and stores nothing
ArrayShapeIfChecked == dec.overflow_checks => C18_ArrayShape

\* an array of no element stored for lengths whose product is 2^64
ProductWrapped ==
    \E r \in ArrayReturns :
       /\ Log[r].tag = "BinaryArray"
       /\ StoredBy(r).v.lens = <<65536, 65536, 65536, 65536>>
       /\ StoredBy(r).v.elems = << >>

(***************************************************************************)
(* The fields of a class that no parser reads.                             *)
(***************************************************************************)
Supported(field) ==
    \/ field.bt = "Record" /\ field.ai.k = "Nothing"
    \/ field.bt = "Primitive" /\ field.ai.k = "PrimitiveType"
    \/ field.bt = "String" /\ field.ai.k = "Nothing"
    \/ field.bt = "SystemClass" /\ field.ai.k = "ClassName"
    \/ field.bt = "Class" /\ field.ai.k = "Class"
    \/ field.bt = "PrimitiveArray" /\ field.ai.k = "PrimitiveType"

\* the calls of next_value_record that have not returned, and the last of
\* them: the one the decode was in when it stopped
Open(c) ==
    /\ Log[c].k = "call"
    /\ \A r \in (c + 1)..Len(Log) :
          (Log[r].k = "ret" /\ Log[r].tag # "Pending") => CallOf(r) # c
Stopped == \E c \in DOMAIN Log : Open(c)
Innermost == CHOOSE c \in DOMAIN Log : Open(c) /\ \A d \in (c + 1)..Len(Log) : ~Open(d)

\* call c reads a record that decodes an object, and has come to decode it:
\* the class of the object and where its members start
ObjectCall(c) == Log[c].k = "call" /\ Log[c].byte \in {1, 3, 4, 5}
Started(c) ==
    IF Log[c].byte = 1
    THEN dec.pos >= Log[c].start + 9 /\ I32At(Log[c].start + 5) \in Log[c].classes
    ELSE Len(Defs) > Log[c].defs
ClassOf(c) ==
    IF Log[c].byte = 1 THEN RegisteredAt(c, I32At(Log[c].start + 5))
    ELSE Defs[Log[c].defs + 1].class
MembersAt(c) ==
    IF Log[c].byte = 1 THEN Log[c].start + 9
    ELSE Log[c].start
           + Len(HeadOf(Log[c].byte, Defs[Log[c].defs + 1].id, Defs[Log[c].defs + 1].class))
DirectOpen(c) == DirectFrom(c + 1, c, Len(Log) + 1)

\* the field at which the decoding of the members stopped and the position
\* it had come to: a primitive is taken from the bytes if they are there,
\* a record from the next call that returned
RECURSIVE StopsAt(_, _, _, _, _)
StopsAt(fields, k, at, direct, m) ==
    IF k > Len(fields) THEN [k |-> k, at |-> at]
    ELSE IF ~Supported(fields[k]) THEN [k |-> k, at |-> at]
    ELSE IF fields[k].bt = "Primitive"
    THEN IF PrimSize(fields[k].ai.p) > 0
            /\ at + PrimSize(fields[k].ai.p) <= Len(dec.stream)
         THEN StopsAt(fields, k + 1, at + PrimSize(fields[k].ai.p), direct, m)
         ELSE [k |-> k, at |-> at]
    ELSE IF m <= Len(direct)
    THEN StopsAt(fields, k + 1, Log[direct[m]].end, direct, m + 1)
    ELSE [k |-> k, at |-> at]
StoppedAt(c) == StopsAt(ClassOf(c).fields, 1, MembersAt(c), DirectOpen(c), 1)

\* the decoding of the object of call c has reached a field no parser reads
ReachedUnsupported(c, fields, s) ==
    /\ ObjectCall(c) /\ Started(c)
    /\ s.k <= Len(fields) /\ ~Supported(fields[s.k])
AtUnsupported(c) ==
    ObjectCall(c) /\ Started(c) /\ ReachedUnsupported(c, ClassOf(c).fields, StoppedAt(c))

\* C19: decoding an instance of a class with a field whose (BinaryType,
\* AdditionalInfos) pair is none of the six that have a parser aborts with
\* the 'no parser' error when the field is reached: nothing is read for
\* the field, no object of such a class is ever completed, and the error
\* is raised nowhere else.
C19_NoParserAborts ==
    /\ \A c \in DOMAIN Log :
          (Open(c) /\ c = Innermost /\ AtUnsupported(c))
          => /\ pc = "aborted"
             /\ dec.fault = "No parser implemented"
             /\ dec.pos = StoppedAt(c).at
    /\ \A r \in DOMAIN Log :
          (Log[r].k = "ret" /\ Log[r].tag \in ClassTags \cup {"ClassWithId"})
          => \A k \in DOMAIN ClassOf(CallOf(r)).fields :
                Supported(ClassOf(CallOf(r)).fields[k])
    /\ dec.fault = "No parser implemented"
          => \E c \in DOMAIN Log : Open(c) /\ c = Innermost /\ AtUnsupported(c)

\* an instance made by a ClassWithId record stops at the second field of
\* its class, an array of objects, after a record was read for the first
C19_Witness ==
    /\ dec.fault = "No parser implemented"
    /\ Stopped
    /\ Log[Innermost].byte = 1
    /\ StoppedAt(Innermost).k = 2
    /\ ClassOf(Innermost).fields[2].bt = "ObjectArray"
    /\ Len(DirectOpen(Innermost)) = 1

(***************************************************************************)
(* The primitive types that are declared and not read.                     *)
(***************************************************************************)
Unread == {"Char", "Decimal", "TimeSpan", "DateTime"}

UnreadField(field) == field.bt = "Primitive" /\ field.ai.p \in Unread

\* the decoding of the object of call c has come to a field of such a type
ReachedUnread(fields, s) == s.k <= Len(fields) /\ UnreadField(fields[s.k])
AtUnreadField(c) ==
    ObjectCall(c) /\ Started(c) /\ ReachedUnread(ClassOf(c).fields, StoppedAt(c))

\* call c reads an ArraySinglePrimitive record of one element or more of
\* such a type, and has read its header
AtUnreadElement(c) ==
    /\ Log[c].k = "call" /\ Log[c].byte = 15
    /\ dec.pos >= Log[c].start + 10
    /\ I32At(Log[c].start + 5) >= 1
    /\ PrimitiveAt(Log[c].start) \in Unread

\* C20: reading a value of type Char, Decimal, TimeSpan or DateTime, as a
\* primitive field of a class or as an element of an ArraySinglePrimitive
\* of length 1 or more, aborts the decode where the value starts: no
\* object or array holding such a value is ever stored, no byte is read
\* in its place, and the error is raised nowhere else.
C20_UnreadAborts ==
    /\ \A c \in DOMAIN Log :
          (Open(c) /\ c = Innermost /\ AtUnreadField(c))
          => /\ pc = "aborted"
             /\ dec.fault = "Cannot deserialize yet"
             /\ dec.pos = StoppedAt(c).at
    /\ \A c \in DOMAIN Log :
          AtUnreadElement(c)
          => /\ pc = "aborted"
             /\ dec.fault = "Cannot deserialize yet"
             /\ dec.pos = Log[c].start + 10
             /\ Open(c) /\ c = Innermost
    /\ \A r \in DOMAIN Log :
          (Log[r].k = "ret" /\ Log[r].tag \in ClassTags \cup {"ClassWithId"})
          => \A k \in DOMAIN ClassOf(CallOf(r)).fields :
                ~UnreadField(ClassOf(CallOf(r)).fields[k])
    /\ dec.fault = "Cannot deserialize yet"
          => /\ Stopped
             /\ AtUnreadField(Innermost) \/ AtUnreadElement(Innermost)

\* a class whose second field is a DateTime: the decode stops there, after
\* the string of the first field
C20_Witness ==
    /\ dec.fault = "Cannot deserialize yet"
    /\ Stopped
    /\ AtUnreadField(Innermost)
    /\ StoppedAt(Innermost).k = 2
    /\ ClassOf(Innermost).fields[2].ai.p = "DateTime"
    /\ Len(DirectOpen(Innermost)) = 1

\* an array of two TimeSpan: the decode stops at the first
UnreadElementReached ==
    /\ dec.fault = "Cannot deserialize yet"
    /\ Stopped
    /\ AtUnreadElement(Innermost)
    /\ I32At(Log[Innermost].start + 5) = 2
    /\ PrimitiveAt(Log[Innermost].start) = "TimeSpan"

(***************************************************************************)
(* References that lead back to where they start.                          *)
(***************************************************************************)
\* the ids the records of the stream refer to, the root's among them
ReferencedIds ==
    { Records[i].v.id : i \in { j \in DOMAIN Records : Records[j].k = "ret"
                                    /\ Records[j].tag = "MemberReference" } }
      \cup (IF dec.root_id = None THEN {} ELSE {dec.root_id.v})
AllDefined == ReferencedIds \subseteq DefinedIds

\* the ids the value stored under id refers to, and the ids reached from
\* them in up to three steps through the table
RefsOf(id) ==
    IF id \in DOMAIN dec.values
    THEN { n.id : n \in { m \in Nodes(dec.values[id]) : m.tag = "Reference" } }
    ELSE {}
RefsOfAll(ids) == ids \cup UNION { RefsOf(id) : id \in ids }
ReachedFrom(id) == RefsOfAll(RefsOfAll(RefsOfAll(RefsOf(id))))
OnCycle(id) == id \in ReachedFrom(id)

\* C21: on a stream in which every referenced id is defined by some record,
\* the resolution of the root finishes: the recursion of resolve_references
\* does not come back to an id it is resolving, and so does not use up the
\* stack.  (The stack is not used up, or some referenced id is not defined.)
C21_ResolutionFinishes == pc # "overflow" \/ ~AllDefined

\* the recursion uses up the stack only where the table holds a value that
\* refers, directly or through others, to its own id
OverflowOnlyOnCycle == pc = "overflow" => \E id \in DOMAIN dec.values : OnCycle(id)

\* an object that refers to its own id, every referenced id being defined
SelfReferenceOverflows ==
    /\ pc = "overflow"
    /\ 1 \in RefsOf(1)
    /\ AllDefined

(***************************************************************************)
(* The members of a decoded Object.                                        *)
(***************************************************************************)
ObjectReturns ==
    { r \in DOMAIN Log : Log[r].k = "ret" /\ Log[r].tag \in ClassTags \cup {"ClassWithId"} }

NamesOf(fields) == { fields[k].name : k \in DOMAIN fields }

\* C22 as stated: every decoded Object has as many members as the Class it
\* was decoded from has fields, also when the class declares a field name
\* more than once.
C22_OneMemberPerField ==
    \A r \in ObjectReturns :
       /\ StoredBy(r).v.tag = "Object"
       /\ Cardinality(DOMAIN StoredBy(r).v.members) = Len(ClassOf(CallOf(r)).fields)

\* C22: every decoded Object has one member per field name of the Class it
\* was decoded from: as many members as the class has fields if no name is
\* declared twice, and for a name declared more than once the one member
\* of that name, holding the value decoded for the last field of the name.
C22_OneMemberPerName ==
    \A r \in ObjectReturns :
       /\ StoredBy(r).v.tag = "Object"
       /\ DOMAIN StoredBy(r).v.members = NamesOf(ClassOf(CallOf(r)).fields)
       /\ (\A k \in DOMAIN ClassOf(CallOf(r)).fields :
              LastOfName(ClassOf(CallOf(r)).fields, k))
          => Cardinality(DOMAIN StoredBy(r).v.members) = Len(ClassOf(CallOf(r)).fields)
       /\ MembersPerSchema(ClassOf(CallOf(r)).fields, StoredBy(r).v.members, 1,
                           MembersAt(CallOf(r)), Direct(r), 1)

\* an object of a class that declares the name "a" for a String and for an
\* Int32: the one member holds the Int32
C22_Witness ==
    \E r \in ObjectReturns :
       /\ Len(ClassOf(CallOf(r)).fields) = 2
       /\ NamesOf(ClassOf(CallOf(r)).fields) = {Na}
       /\ ClassOf(CallOf(r)).fields[2].bt = "Primitive"
       /\ Len(Direct(r)) = 1
       /\ Log[Direct(r)[1]].tag = "BinaryObjectString"
       /\ StoredBy(r).v.members[Na] = I32(I32At(Log[Direct(r)[1]].end))

(***************************************************************************)
(* The null-run counter at the end of a decode.                            *)
(***************************************************************************)
\* C23: whenever parse_nrbf returns a value, the null-run counter of its
\* session is zero: no null of a run is left unconsumed.
C23_NoNullLeft == pc = "returned" => dec.null_count = 0

\* a decode that returns after a run of two nulls was read and handed out
C23_Witness ==
    /\ pc = "returned"
    /\ \E i \in RunReturns : RunCount(CallOf(i)) = 2
    /\ \E i \in DOMAIN Log : Log[i].k = "ret" /\ Log[i].tag = "Pending"

\* a run that is not used up when the root is resolved: the end check
\* takes its next null for the record after the root and aborts
NullLeftAborts ==
    (pc = "end" /\ dec.null_count > 0)
    => (pc' = "aborted" /\ dec'.fault = "assert_eq!(end, Value::Bottom)")
NullLeftAlwaysAborts == [][NullLeftAborts]_vars

(***************************************************************************)
(* The References that next_value_record hands out.                        *)
(***************************************************************************)
InTableAt(r, id) == \E w \in 1..Log[r].writes : Writes[w].id = id

\* the record whose arm made the value that return r hands out: a null run
\* of count zero hands on the value of the record read after it
RECURSIVE SourceOf(_)
SourceOf(r) ==
    IF Log[r].tag \in RunTags /\ Log[r - 1].k = "ret" /\ Log[r - 1].tag # "Pending"
    THEN SourceOf(r - 1) ELSE r

Returns == { r \in DOMAIN Log : Log[r].k = "ret" }

\* C24: every Reference(id) that a value-defining record yields has its id
\* in the values table when next_value_record returns it, put there by
\* that record; a Reference whose id is not in the table comes from a
\* MemberReference record only.
C24_ReferenceInTable ==
    \A r \in Returns :
       /\ Log[r].tag \in DefTags
          => /\ Log[r].v.tag = "Reference"
             /\ InTableAt(r, Log[r].v.id)
             /\ StoredBy(r).id = Log[r].v.id
       /\ Log[r].v.tag = "Reference"
          => Log[SourceOf(r)].tag \in DefTags \cup {"MemberReference"}
       /\ (Log[r].v.tag = "Reference" /\ ~InTableAt(r, Log[r].v.id))
          => Log[SourceOf(r)].tag = "MemberReference"

\* a MemberReference record has yielded a Reference to an id that is not in
\* the table, and the record it is a member of one to an id that is
C24_Witness ==
    \E r \in Returns :
       /\ Log[r].tag = "MemberReference"
       /\ ~InTableAt(r, Log[r].v.id)
       /\ \E q \in Returns :
             /\ q > r /\ Log[q].tag \in DefTags
             /\ Log[q].start < Log[r].start
             /\ InTableAt(q, Log[q].v.id)

\* a null run of count zero hands on such a Reference
RunHandsOnReference ==
    \E r \in Returns :
       /\ Log[r].tag \in RunTags
       /\ Log[r].v.tag = "Reference"
       /\ ~InTableAt(r, Log[r].v.id)

\* the bounds of the model are not met: no decode ends for want of them
NeverExhausted == pc # "exhausted"

====
